---- MODULE Spec2Model ----
(***************************************************************************)
(* The convert pipeline of the text-to-speech backend:                     *)
(*   POST /convert = checkSubscription, checkCharacterLimit,               *)
(*   checkConcurrentRequests, ttsLimiter, ttsValidation,                   *)
(*   handleValidationErrors, convertTextToSpeech   (routes/tts.routes.js)  *)
(* Every request is an async handler chain; each await is one step, so     *)
(* the steps of concurrent requests interleave at every await.             *)
(* One user, one usage period.  A text is abstracted to what the code      *)
(* reads of it: its length and its count of whitespace-separated words.    *)
(* The writes of the job lifecycle (voiceFile.save, usage.addUsage) and    *)
(* the external calls (Polly, S3) may fail; the reads of the store and the *)
(* gate's write of the expired status are taken to succeed.                *)
(***************************************************************************)
EXTENDS Integers, FiniteSets, Sequences, TLC

\* ------------------------------------------------------------ bounds
NumReq == 2
MaxLen == 2
CharsPerMonth == 1
MaxNow == 1
SubEndDate == 0
MaxSurcharge == 1
NumSubs == 2
NumSubOps == 2
NumDelOps == 2
NumDlOps == 2
NumCleanOps == 2
NumOtps == 4
NumOtpOps == 2

\* ------------------------------------------------- program constants
MaxTextLength == 300000
DefaultMaxConcurrent == 5
WordsPerMinute == 150
RetentionDays == 90
FailedDays == 7
OrphanDays == 1
MaxOtpAttempts == 3
OtpWindowMinutes == 5
OtpExpiryMinutes == 10

Requests == 1..NumReq
SubIds == 1..NumSubs
SubOps == 1..NumSubOps
CleanOps == 1..NumCleanOps
OtpIds == 1..NumOtps
OtpOps == 1..NumOtpOps
DelOps == 1..NumDelOps
DlOps == 1..NumDlOps

NoDate == -1
NoUser == [status |-> "NoUser", endDate |-> NoDate]
NoSub == [status |-> "NoSub", endDate |-> NoDate]
NoJob == [status |-> "none", errorMessage |-> "", s3Key |-> "", audioUrl |-> "",
          duration |-> 0, fileSize |-> 0, downloadCount |-> 0, lastDownloadedAt |-> NoDate]
\* usagePercentage is a fraction, kept exact as numerator and denominator
NoPercentage == [num |-> 0, den |-> 1]
NoData == [charactersUsed |-> 0, charactersLimit |-> 0, textLength |-> 0, remaining |-> 0,
           usagePercentage |-> NoPercentage]
NoResp == [status |-> 0, code |-> "", error |-> "", data |-> NoData]
Unset == -1
PENDING == "PENDING"

VARIABLES
  now,          \* the clock (new Date())
  userSub,      \* User.findById(..).populate('subscription'): NoUser, NoSub or the Subscription
  plan,         \* the subscription's plan: features.charactersPerMonth, features.maxConcurrentRequests
  usage,        \* the Usage record of the user for the current period (persisted)
  voiceFiles,   \* the VoiceFile collection (persisted), one possible record per request
  pc,           \* where each request is in its handler chain
  body,         \* req.body of each request
  voiceFile,    \* the in-memory VoiceFile document of each request
  usageDoc,     \* the in-memory Usage document of each request (controller step 3)
  synthesisResult, \* requestCharacters of the synthesis result held by each request
  innerError,   \* the message of the error caught by the inner catch
  resp,         \* the response sent for each request
  extCalls,     \* the provider and storage commands each request has issued
  committed,    \* history: the character count each request passed to a successful addUsage
  subs,         \* the Subscription collection of the user (persisted): the status of each record
  userRef,      \* user.subscription: the id of the subscription the user record refers to, or NoRef
  subOps,       \* the subscription operations in flight: kind, position, locals, response
  objects,      \* the bucket: the bytes stored under each key, or NoObject
  urls,         \* history: the presigned download URLs minted by getDownloadUrl
  delOps,       \* the account deletions in flight: kind, position, locals, response
  dlOps,        \* the getDownloadUrl calls in flight: position, the document read, response
  createdAt,    \* VoiceFile.createdAt of each record, in days, or NoDate
  isRunning,    \* CleanupService.isRunning
  cleanOps,     \* the cleanup calls in flight: kind, position, locals, result
  otps,         \* the OTP collection for one email and type (persisted)
  otpOps,       \* the OTP requests in flight: kind, position, locals, result
  planExists    \* whether the Plan record the subscriptions refer to is stored

\* the state of the convert requests, and the rest
convertVars == <<now, userSub, plan, usage, voiceFiles, pc, body, voiceFile, usageDoc,
                 synthesisResult, innerError, resp, extCalls, committed>>
subVars == <<subs, userRef, subOps>>
fileVars == <<objects, urls, delOps, dlOps>>
cleanVars == <<createdAt, isRunning, cleanOps>>
otpVars == <<otps, otpOps>>
laterVars == <<createdAt, isRunning, cleanOps, otps, otpOps, planExists>>
otherVars == <<subs, userRef, subOps, objects, urls, delOps, dlOps,
               createdAt, isRunning, cleanOps, otps, otpOps, planExists>>
vars == <<now, userSub, plan, usage, voiceFiles, pc, body, voiceFile, usageDoc,
          synthesisResult, innerError, resp, extCalls, committed, subs, userRef, subOps,
          objects, urls, delOps, dlOps, createdAt, isRunning, cleanOps, otps, otpOps,
          planExists>>

\* ------------------------------------------------------------ texts
\* The request texts are "", "a", "a ", "a b", "a b ", "a b c", ...: one text of each length up
\* to MaxLen, given by its text.length and its text.trim().split(/\s+/).length ("" splits to [""]).
WordsOf(n) == IF n < 2 THEN 1 ELSE (n + 1) \div 2
Texts == {[len |-> n, words |-> WordsOf(n)] : n \in 0..MaxLen}
NoBody == [text |-> [len |-> 0, words |-> 1], voiceId |-> "", outputFormat |-> "", engine |-> ""]
VoiceIds == {"", "Joanna"}
supportedFormats == {"mp3", "wav", "ogg"}
supportedEngines == {"standard", "neural"}
\* the option pairs a body may carry: the defaults, an unsupported format, an unsupported engine
Options == {<<"mp3", "standard">>, <<"flac", "standard">>, <<"mp3", "hd">>}

Ceil(a, b) == (a + b - 1) \div b
estimateAudioDuration(text) == Ceil(text.words * 60, WordsPerMinute)
\* synthesisResult.audioBuffer.length: the provider's audio, a byte per character here
audioBufferLength(text) == text.len

\* ------------------------------------------------------------ responses
Response(s, c, e) == [status |-> s, code |-> c, error |-> e, data |-> NoData]
UserNotFound == Response(404, "", "User not found")
NoSubscription == Response(403, "NO_SUBSCRIPTION", "No subscription found")
SubscriptionInactive == Response(403, "INACTIVE_SUBSCRIPTION", "Your subscription is not active")
SubscriptionExpired == Response(403, "EXPIRED_SUBSCRIPTION", "Your subscription has expired")
TextRequired == Response(400, "", "Text is required")
ConcurrencyLimitExceeded == Response(429, "CONCURRENT_LIMIT_EXCEEDED", "Maximum concurrent requests reached")
RateLimited == Response(429, "", "Too many requests")
ValidationFailed == Response(400, "", "Validation failed")
TextAndVoiceRequired == Response(400, "", "Text and voice ID are required")
TextTooLong == Response(400, "", "Text cannot exceed 300000 characters")
ActiveSubscriptionRequired == Response(403, "", "Active subscription required")
InvalidVoice == Response(400, "", "Invalid voice ID")
ConvertFailed == Response(500, "", "Failed to convert text to speech")
ConvertOk == Response(200, "", "")

\* ------------------------------------------------------------ the Usage model
NoUsage == [exists |-> FALSE, charactersUsed |-> 0, charactersLimit |-> 0, requestsCount |-> 0,
            audioFilesGenerated |-> 0, totalAudioDuration |-> 0]

\* Usage.getOrCreateCurrentUsage: the record of the period, created with zero counters on first use
getOrCreateCurrentUsage(u, p) ==
  IF u.exists THEN u
  ELSE [NoUsage EXCEPT !.exists = TRUE, !.charactersLimit = p.charactersPerMonth]

\* usage.hasQuota(n): charactersUsed + n <= limit
hasQuota(u, n) == u.charactersUsed + n <= u.charactersLimit

\* usage.getRemainingCharacters(): limit - charactersUsed
getRemainingCharacters(u) == u.charactersLimit - u.charactersUsed

\* usage.getUsagePercentage(): 100 * charactersUsed / limit
getUsagePercentage(u) == [num |-> 100 * u.charactersUsed, den |-> u.charactersLimit]

\* usage.addUsage(characters, duration): one atomic increment of the stored record u
addUsage(u, characters, duration) ==
  [u EXCEPT !.charactersUsed = @ + characters,
            !.requestsCount = @ + 1,
            !.audioFilesGenerated = @ + 1,
            !.totalAudioDuration = @ + duration]

\* the data of the two "Character limit exceeded" answers
\* the data, had remaining and usagePercentage counted the rejected text in
QuotaDataWithText(u, n) ==
  [charactersUsed |-> u.charactersUsed, charactersLimit |-> u.charactersLimit,
   textLength |-> n, remaining |-> getRemainingCharacters(u) - n,
   usagePercentage |-> [num |-> 100 * (u.charactersUsed + n), den |-> u.charactersLimit]]

QuotaData(u, n) ==
  [charactersUsed |-> u.charactersUsed, charactersLimit |-> u.charactersLimit,
   textLength |-> n, remaining |-> getRemainingCharacters(u),
   usagePercentage |-> getUsagePercentage(u)]
QuotaExceeded(u, n) ==
  [Response(403, "QUOTA_EXCEEDED", "Character limit exceeded for this month")
     EXCEPT !.data = QuotaData(u, n)]
CtlQuotaExceeded(u, n) ==
  [Response(403, "", "Character limit exceeded for this month") EXCEPT !.data = QuotaData(u, n)]

\* ------------------------------------------------------------ the state after start-up
Subscriptions == [status : {"pending", "active", "expired", "cancelled"},
                  endDate : {SubEndDate}]
Plans == [charactersPerMonth : {CharsPerMonth}, maxConcurrentRequests : {Unset, 1}]

\* no subscription operation in flight
NoRef == 0
NoSubOp == [kind |-> "", pc |-> "idle", sub |-> NoRef, status |-> "", resp |-> 0]
SubsIdle ==
  /\ subs = [i \in SubIds |-> "none"]
  /\ userRef = NoRef
  /\ subOps = [o \in SubOps |-> NoSubOp]

\* uploadAudioFile stores each request's audio under a key of its own
\* (audio/${userId}/${uuidv4()}-${filename})
KeyNames == <<"audio/1", "audio/2", "audio/3", "audio/4">>
KeyOf(r) == KeyNames[r]
AllKeys == {KeyOf(r) : r \in Requests}
\* the bytes of the audio synthesized for request r
AudioOf(r) == r
NoObject == 0
NoDelOp == [kind |-> "", pc |-> "idle", s3Keys |-> {}, pending |-> {}, failed |-> FALSE,
            resp |-> 0]
NoDlOp == [pc |-> "idle", user |-> "", file |-> 0, doc |-> NoJob, resp |-> 0]
FileOpsIdle ==
  /\ urls = {}
  /\ delOps = [o \in DelOps |-> NoDelOp]
  /\ dlOps = [o \in DlOps |-> NoDlOp]
\* the requests of the user are at rest: the stored records are what their conversions left
RequestsIdle ==
  /\ pc = [r \in Requests |-> "idle"]
  /\ body = [r \in Requests |-> NoBody]
  /\ voiceFile = [r \in Requests |-> NoJob]
  /\ usageDoc = [r \in Requests |-> NoUsage]
  /\ synthesisResult = [r \in Requests |-> 0]
  /\ innerError = [r \in Requests |-> ""]
  /\ resp = [r \in Requests |-> NoResp]
  /\ extCalls = [r \in Requests |-> {}]
  /\ committed = [r \in Requests |-> 0]

\* no cleanup in flight
NoCleanOp == [kind |-> "", pc |-> "idle", exp |-> "none", pending |-> {}, files |-> {},
              file |-> 0, started |-> {}, rejected |-> FALSE, removed |-> {}, dropped |-> {},
              result |-> ""]
CleanIdle ==
  /\ isRunning = FALSE
  /\ cleanOps = [o \in CleanOps |-> NoCleanOp]
\* no OTP stored, no OTP request in flight
\* deleted and verified are history: the record was deleted; the verifyOTP calls it let pass
NoOtp == [otp |-> 0, isUsed |-> FALSE, createdAt |-> NoDate, expiresAt |-> NoDate,
          deleted |-> FALSE, verified |-> 0]
NoOtpOp == [kind |-> "", pc |-> "idle", id |-> 0, result |-> ""]
OtpIdle ==
  /\ otps = [i \in OtpIds |-> NoOtp]
  /\ otpOps = [o \in OtpOps |-> NoOtpOp]
OtherIdle ==
  /\ SubsIdle
  /\ objects = [k \in AllKeys |-> NoObject]
  /\ FileOpsIdle
  /\ createdAt = [r \in Requests |-> NoDate]
  /\ CleanIdle
  /\ OtpIdle
  /\ planExists = TRUE

Init ==
  /\ OtherIdle
  /\ now = 0
  /\ userSub \in {NoUser, NoSub} \cup Subscriptions
  /\ plan \in Plans
  /\ usage = NoUsage
  /\ voiceFiles = [r \in Requests |-> NoJob]
  /\ pc = [r \in Requests |-> "idle"]
  /\ body = [r \in Requests |-> NoBody]
  /\ voiceFile = [r \in Requests |-> NoJob]
  /\ usageDoc = [r \in Requests |-> NoUsage]
  /\ synthesisResult = [r \in Requests |-> 0]
  /\ innerError = [r \in Requests |-> ""]
  /\ resp = [r \in Requests |-> NoResp]
  /\ extCalls = [r \in Requests |-> {}]
  /\ committed = [r \in Requests |-> 0]

\* res.status(..).json(..): the request ends; its locals are dropped
Respond(r, response) ==
  /\ pc' = [pc EXCEPT ![r] = "done"]
  /\ resp' = [resp EXCEPT ![r] = response]
  /\ body' = [body EXCEPT ![r] = NoBody]
  /\ voiceFile' = [voiceFile EXCEPT ![r] = NoJob]
  /\ usageDoc' = [usageDoc EXCEPT ![r] = NoUsage]
  /\ synthesisResult' = [synthesisResult EXCEPT ![r] = 0]
  /\ innerError' = [innerError EXCEPT ![r] = ""]

\* next(): the request moves to the following handler
Goto(r, label) ==
  /\ pc' = [pc EXCEPT ![r] = label]
  /\ resp' = resp

Tick ==
  /\ now < MaxNow
  /\ now' = now + 1
  /\ UNCHANGED <<userSub, plan, usage, voiceFiles, pc, body, voiceFile, usageDoc,
                 synthesisResult, innerError, resp, extCalls, committed>>
  /\ UNCHANGED otherVars

\* a POST /convert arrives (requests are numbered in their order of arrival).  req.body does
\* not change during the request: each of its fields is drawn at the handler that first reads it.
Arrive(r) ==
  /\ pc[r] = "idle"
  /\ \A q \in Requests : q < r => pc[q] # "idle"
  /\ pc' = [pc EXCEPT ![r] = "checkSubscription"]
  /\ UNCHANGED <<now, userSub, plan, usage, voiceFiles, body, voiceFile, usageDoc,
                 synthesisResult, innerError, resp, extCalls, committed>>
  /\ UNCHANGED otherVars

\* the locals of the controller a middleware step leaves alone
KeepLocals == UNCHANGED <<voiceFile, usageDoc, synthesisResult, innerError>>

\* ------------------------------------------------------------ middleware/subscription.js
HasSubscription(s) == s.status \notin {"NoUser", "NoSub"}
EndDatePassed(s, t) == s.endDate # NoDate /\ s.endDate < t

\* checkSubscription up to its save: the user is read and the checks run on what was read
\* checkSubscription without its branch on a missing subscription
checkSubscriptionNoSubscriptionUnchecked(r) ==
  /\ pc[r] = "checkSubscription"
  /\ IF userSub.status = "NoUser" THEN Respond(r, UserNotFound)
     ELSE IF userSub.status # "active" THEN Respond(r, SubscriptionInactive)
     ELSE IF EndDatePassed(userSub, now) THEN Goto(r, "saveExpired") /\ KeepLocals /\ body' = body
     ELSE Goto(r, "checkCharacterLimit") /\ KeepLocals /\ body' = body
  /\ UNCHANGED <<now, userSub, plan, usage, voiceFiles, extCalls, committed>>
  /\ UNCHANGED otherVars

\* checkSubscription without its branch on the endDate
checkSubscriptionEndDateUnchecked(r) ==
  /\ pc[r] = "checkSubscription"
  /\ IF userSub.status = "NoUser" THEN Respond(r, UserNotFound)
     ELSE IF ~HasSubscription(userSub) THEN Respond(r, NoSubscription)
     ELSE IF userSub.status # "active" THEN Respond(r, SubscriptionInactive)
     ELSE Goto(r, "checkCharacterLimit") /\ KeepLocals /\ body' = body
  /\ UNCHANGED <<now, userSub, plan, usage, voiceFiles, extCalls, committed>>
  /\ UNCHANGED otherVars

checkSubscription(r) ==
  /\ pc[r] = "checkSubscription"
  /\ IF userSub.status = "NoUser" THEN Respond(r, UserNotFound)
     ELSE IF ~HasSubscription(userSub) THEN Respond(r, NoSubscription)
     ELSE IF userSub.status # "active" THEN Respond(r, SubscriptionInactive)
     ELSE IF EndDatePassed(userSub, now) THEN Goto(r, "saveExpired") /\ KeepLocals /\ body' = body
     ELSE Goto(r, "checkCharacterLimit") /\ KeepLocals /\ body' = body
  /\ UNCHANGED <<now, userSub, plan, usage, voiceFiles, extCalls, committed>>
  /\ UNCHANGED otherVars

\* user.subscription.status = 'expired'; await user.subscription.save(); 403
checkSubscriptionSaveExpired(r) ==
  /\ pc[r] = "saveExpired"
  /\ userSub' = [userSub EXCEPT !.status = "expired"]
  /\ Respond(r, SubscriptionExpired)
  /\ UNCHANGED <<now, plan, usage, voiceFiles, extCalls, committed>>
  /\ UNCHANGED otherVars

\* checkCharacterLimit without its branch on hasQuota
checkCharacterLimitQuotaUnchecked(r) ==
  /\ pc[r] = "checkCharacterLimit"
  /\ \E text \in Texts :
       IF text.len = 0
         THEN Respond(r, TextRequired) /\ usage' = usage
         ELSE /\ usage' = getOrCreateCurrentUsage(usage, plan)
              /\ Goto(r, "checkConcurrentRequests")
              /\ body' = [body EXCEPT ![r].text = text]
              /\ KeepLocals
  /\ UNCHANGED <<now, userSub, plan, voiceFiles, extCalls, committed>>
  /\ UNCHANGED otherVars

checkCharacterLimit(r) ==
  /\ pc[r] = "checkCharacterLimit"
  /\ \E text \in Texts :
       IF text.len = 0
         THEN Respond(r, TextRequired) /\ usage' = usage
         ELSE /\ usage' = getOrCreateCurrentUsage(usage, plan)
              /\ IF ~hasQuota(usage', text.len)
                   THEN Respond(r, QuotaExceeded(usage', text.len))
                   ELSE /\ Goto(r, "checkConcurrentRequests")
                        /\ body' = [body EXCEPT ![r].text = text]
                        /\ KeepLocals
  /\ UNCHANGED <<now, userSub, plan, voiceFiles, extCalls, committed>>
  /\ UNCHANGED otherVars

\* VoiceFile.countDocuments({user, status: 'processing'})
processingFiles == Cardinality({q \in Requests : voiceFiles[q].status = "processing"})

\* req.plan.features.maxConcurrentRequests || 5
maxConcurrentRequests(p) ==
  IF p.maxConcurrentRequests = Unset \/ p.maxConcurrentRequests = 0
    THEN DefaultMaxConcurrent ELSE p.maxConcurrentRequests

\* checkConcurrentRequests, had it reserved the slot: the admitted request's record is
\* inserted as processing by the check itself
checkConcurrentRequestsReserving(r) ==
  /\ pc[r] = "checkConcurrentRequests"
  /\ IF processingFiles >= maxConcurrentRequests(plan)
       THEN Respond(r, ConcurrencyLimitExceeded) /\ voiceFiles' = voiceFiles
       ELSE /\ Goto(r, "ttsLimiter") /\ KeepLocals /\ body' = body
            /\ voiceFiles' = [voiceFiles EXCEPT ![r] = [NoJob EXCEPT !.status = "processing"]]
  /\ UNCHANGED <<now, userSub, plan, usage, extCalls, committed>>
  /\ UNCHANGED otherVars

\* checkConcurrentRequests with > for >=
checkConcurrentRequestsStrict(r) ==
  /\ pc[r] = "checkConcurrentRequests"
  /\ IF processingFiles > maxConcurrentRequests(plan)
       THEN Respond(r, ConcurrencyLimitExceeded)
       ELSE Goto(r, "ttsLimiter") /\ KeepLocals /\ body' = body
  /\ UNCHANGED <<now, userSub, plan, usage, voiceFiles, extCalls, committed>>
  /\ UNCHANGED otherVars

checkConcurrentRequests(r) ==
  /\ pc[r] = "checkConcurrentRequests"
  /\ IF processingFiles >= maxConcurrentRequests(plan)
       THEN Respond(r, ConcurrencyLimitExceeded)
       ELSE Goto(r, "ttsLimiter") /\ KeepLocals /\ body' = body
  /\ UNCHANGED <<now, userSub, plan, usage, voiceFiles, extCalls, committed>>
  /\ UNCHANGED otherVars

\* ------------------------------------------------------------ routes/tts.routes.js
\* ttsLimiter: the rate limiter lets the request through or answers 429
ttsLimiter(r) ==
  /\ pc[r] = "ttsLimiter"
  /\ \E limited \in BOOLEAN :
       IF limited THEN Respond(r, RateLimited)
       ELSE Goto(r, "ttsValidation") /\ KeepLocals /\ body' = body
  /\ UNCHANGED <<now, userSub, plan, usage, voiceFiles, extCalls, committed>>
  /\ UNCHANGED otherVars

\* ttsValidation: the express-validator chain on the body
ttsValidation(b) ==
  /\ b.text.len >= 1
  /\ b.text.len <= MaxTextLength
  /\ b.voiceId # ""
  /\ b.outputFormat \in {"mp3", "wav", "ogg"}
  /\ b.engine \in {"standard", "neural"}

handleValidationErrors(r) ==
  /\ pc[r] = "ttsValidation"
  /\ \E v \in VoiceIds, o \in Options :
       LET b == [body[r] EXCEPT !.voiceId = v, !.outputFormat = o[1], !.engine = o[2]]
       IN  IF ~ttsValidation(b) THEN Respond(r, ValidationFailed)
           ELSE Goto(r, "convertTextToSpeech") /\ body' = [body EXCEPT ![r] = b] /\ KeepLocals
  /\ UNCHANGED <<now, userSub, plan, usage, voiceFiles, extCalls, committed>>
  /\ UNCHANGED otherVars

\* ------------------------------------------------------------ controllers/tts.controller.js
\* steps 1 and 2: the input checks, then the user is read again and its subscription checked
convertFetchUser(r) ==
  /\ pc[r] = "convertTextToSpeech"
  /\ IF body[r].text.len = 0 \/ body[r].voiceId = "" THEN Respond(r, TextAndVoiceRequired)
     ELSE IF body[r].text.len > MaxTextLength THEN Respond(r, TextTooLong)
     ELSE IF userSub.status = "NoUser" THEN Respond(r, ConvertFailed)
     ELSE IF ~HasSubscription(userSub) \/ userSub.status # "active"
       THEN Respond(r, ActiveSubscriptionRequired)
     ELSE Goto(r, "convertGetUsage") /\ KeepLocals /\ body' = body
  /\ UNCHANGED <<now, userSub, plan, usage, voiceFiles, extCalls, committed>>
  /\ UNCHANGED otherVars

\* steps 3 and 4 without the branch on hasQuota
convertGetUsageQuotaUnchecked(r) ==
  /\ pc[r] = "convertGetUsage"
  /\ usage' = getOrCreateCurrentUsage(usage, plan)
  /\ Goto(r, "convertGetVoice")
  /\ usageDoc' = [usageDoc EXCEPT ![r] = usage']
  /\ UNCHANGED <<body, voiceFile, synthesisResult, innerError>>
  /\ UNCHANGED <<now, userSub, plan, voiceFiles, extCalls, committed>>
  /\ UNCHANGED otherVars

\* steps 3 and 4: the usage record is read (or created) and the quota checked
convertGetUsage(r) ==
  /\ pc[r] = "convertGetUsage"
  /\ usage' = getOrCreateCurrentUsage(usage, plan)
  /\ IF ~hasQuota(usage', body[r].text.len)
       THEN Respond(r, CtlQuotaExceeded(usage', body[r].text.len))
     ELSE /\ Goto(r, "convertGetVoice")
          /\ usageDoc' = [usageDoc EXCEPT ![r] = usage']
          /\ UNCHANGED <<body, voiceFile, synthesisResult, innerError>>
  /\ UNCHANGED <<now, userSub, plan, voiceFiles, extCalls, committed>>
  /\ UNCHANGED otherVars

\* new VoiceFile({... status: "processing", audioUrl: "PENDING", s3Key: "PENDING", duration: 0,
\* fileSize: 0})
NewVoiceFile == [status |-> "processing", errorMessage |-> "", s3Key |-> PENDING,
                 audioUrl |-> PENDING, duration |-> 0, fileSize |-> 0, downloadCount |-> 0,
                 lastDownloadedAt |-> NoDate]

\* step 5: ttsService.getVoiceById asks the provider for its voices; step 6 builds the document
convertGetVoice(r) ==
  /\ pc[r] = "convertGetVoice"
  /\ extCalls' = [extCalls EXCEPT ![r] = @ \cup {"DescribeVoices"}]
  /\ \E ok \in BOOLEAN, voices \in SUBSET (VoiceIds \ {""}) :
       IF ~ok THEN Respond(r, ConvertFailed)
       ELSE IF body[r].voiceId \notin voices THEN Respond(r, InvalidVoice)
       ELSE /\ Goto(r, "convertCreateJob")
            /\ voiceFile' = [voiceFile EXCEPT ![r] = NewVoiceFile]
            /\ UNCHANGED <<body, usageDoc, synthesisResult, innerError>>
  /\ UNCHANGED <<now, userSub, plan, usage, voiceFiles, committed>>
  /\ UNCHANGED otherVars

\* step 6 without its save: the document is kept in memory until the save of step 11
convertCreateJobUnsaved(r) ==
  /\ pc[r] = "convertCreateJob"
  /\ voiceFiles' = voiceFiles
  /\ Goto(r, "synthesizeText") /\ KeepLocals /\ body' = body
  /\ UNCHANGED <<now, userSub, plan, usage, extCalls, committed>>
  /\ UNCHANGED otherVars

\* step 6: await voiceFile.save() inserts the record; a failed insert goes to the outer catch
convertCreateJob(r) ==
  /\ pc[r] = "convertCreateJob"
  /\ \E ok \in BOOLEAN :
       IF ~ok THEN Respond(r, ConvertFailed) /\ voiceFiles' = voiceFiles
       ELSE /\ voiceFiles' = [voiceFiles EXCEPT ![r] = voiceFile[r]]
            /\ Goto(r, "synthesizeText") /\ KeepLocals /\ body' = body
  /\ UNCHANGED <<now, userSub, plan, usage, extCalls, committed>>
  /\ UNCHANGED otherVars

\* throw inside the inner try: control goes to the inner catch with the error's message;
\* the catch reads voiceFile and innerError only, the other locals are dropped
Throw(r, message) ==
  /\ Goto(r, "catch")
  /\ innerError' = [innerError EXCEPT ![r] = message]
  /\ body' = [body EXCEPT ![r] = NoBody]
  /\ usageDoc' = [usageDoc EXCEPT ![r] = NoUsage]
  /\ synthesisResult' = [synthesisResult EXCEPT ![r] = 0]
  /\ voiceFile' = voiceFile

\* step 7: ttsService.synthesizeText; the provider reports the characters it billed
\* (response.RequestCharacters): the text's length, or MaxSurcharge characters more
synthesizeText(r) ==
  /\ pc[r] = "synthesizeText"
  /\ extCalls' = [extCalls EXCEPT ![r] = @ \cup {"SynthesizeSpeech"}]
  /\ \E ok \in BOOLEAN, surcharge \in {0, MaxSurcharge} :
       IF body[r].outputFormat \notin supportedFormats \/ body[r].engine \notin supportedEngines \/ ~ok
         THEN Throw(r, "Speech synthesis failed")
         ELSE /\ Goto(r, "uploadAudioFile")
              /\ synthesisResult' = [synthesisResult EXCEPT ![r] = body[r].text.len + surcharge]
              /\ UNCHANGED <<body, voiceFile, usageDoc, innerError>>
  /\ UNCHANGED <<now, userSub, plan, usage, voiceFiles, committed>>
  /\ UNCHANGED otherVars

\* steps 8 and 9: storageService.uploadAudioFile
uploadAudioFile(r) ==
  /\ pc[r] = "uploadAudioFile"
  /\ extCalls' = [extCalls EXCEPT ![r] = @ \cup {"PutObject"}]
  /\ \E ok \in BOOLEAN :
       IF ~ok THEN Throw(r, "Failed to upload audio file") /\ objects' = objects
       ELSE /\ Goto(r, "generatePresignedDownloadUrl") /\ KeepLocals /\ body' = body
            /\ objects' = [objects EXCEPT ![KeyOf(r)] = AudioOf(r)]
  /\ UNCHANGED <<now, userSub, plan, usage, voiceFiles, committed>>
  /\ UNCHANGED <<subVars, urls, delOps, dlOps, laterVars>>

\* step 10: storageService.generatePresignedDownloadUrl; step 11 sets the document's fields
generatePresignedDownloadUrl(r) ==
  /\ pc[r] = "generatePresignedDownloadUrl"
  /\ extCalls' = [extCalls EXCEPT ![r] = @ \cup {"GetSignedUrl"}]
  /\ \E ok \in BOOLEAN :
       IF ~ok THEN Throw(r, "Failed to generate download URL")
       ELSE /\ Goto(r, "convertSaveCompleted")
            /\ voiceFile' = [voiceFile EXCEPT ![r] =
                 [@ EXCEPT !.s3Key = KeyOf(r), !.audioUrl = "https://signed",
                           !.fileSize = audioBufferLength(body[r].text),
                           !.duration = estimateAudioDuration(body[r].text),
                           !.status = "completed"]]
            /\ UNCHANGED <<body, usageDoc, synthesisResult, innerError>>
  /\ UNCHANGED <<now, userSub, plan, usage, voiceFiles, committed>>
  /\ UNCHANGED otherVars

\* step 11, had it set and saved the status alone
convertSaveCompletedStatusOnly(r) ==
  /\ pc[r] = "convertSaveCompleted"
  /\ \E ok \in BOOLEAN :
       IF ~ok THEN Throw(r, "VoiceFile save failed") /\ voiceFiles' = voiceFiles
       ELSE /\ voiceFiles' = [voiceFiles EXCEPT ![r] =
                 [@ EXCEPT !.status = voiceFile[r].status]]
            /\ Goto(r, "convertAddUsage") /\ KeepLocals /\ body' = body
  /\ UNCHANGED <<now, userSub, plan, usage, extCalls, committed>>
  /\ UNCHANGED otherVars

\* step 11: await voiceFile.save() writes the fields set since the last save
convertSaveCompleted(r) ==
  /\ pc[r] = "convertSaveCompleted"
  /\ \E ok \in BOOLEAN :
       IF ~ok THEN Throw(r, "VoiceFile save failed") /\ voiceFiles' = voiceFiles
       ELSE /\ voiceFiles' = [voiceFiles EXCEPT ![r] =
                 [@ EXCEPT !.s3Key = voiceFile[r].s3Key, !.audioUrl = voiceFile[r].audioUrl,
                           !.fileSize = voiceFile[r].fileSize,
                           !.duration = voiceFile[r].duration, !.status = voiceFile[r].status]]
            /\ Goto(r, "convertAddUsage") /\ KeepLocals /\ body' = body
  /\ UNCHANGED <<now, userSub, plan, usage, extCalls, committed>>
  /\ UNCHANGED otherVars

\* step 12, had it added to the counters of the document read at step 3 and written them back
convertAddUsageWriteBack(r) ==
  /\ pc[r] = "convertAddUsage"
  /\ \E ok \in BOOLEAN :
       IF ~ok THEN Throw(r, "Usage update failed") /\ UNCHANGED <<usage, committed>>
       ELSE /\ usage' = addUsage(usageDoc[r], body[r].text.len,
                                 estimateAudioDuration(body[r].text))
            /\ committed' = [committed EXCEPT ![r] = body[r].text.len]
            /\ Respond(r, ConvertOk)
  /\ UNCHANGED <<now, userSub, plan, voiceFiles, extCalls>>
  /\ UNCHANGED otherVars

\* step 12: await usage.addUsage(text.length, estimatedDuration); step 13 answers 200
convertAddUsage(r) ==
  /\ pc[r] = "convertAddUsage"
  /\ \E ok \in BOOLEAN :
       IF ~ok THEN Throw(r, "Usage update failed") /\ UNCHANGED <<usage, committed>>
       ELSE /\ usage' = addUsage(usage, body[r].text.len,
                                 estimateAudioDuration(body[r].text))
            /\ committed' = [committed EXCEPT ![r] = body[r].text.len]
            /\ Respond(r, ConvertOk)
  /\ UNCHANGED <<now, userSub, plan, voiceFiles, extCalls>>
  /\ UNCHANGED otherVars

\* the inner catch, had it also counted the failed attempt against the usage record
convertCatchCharging(r) ==
  /\ pc[r] = "catch"
  /\ \E ok \in BOOLEAN :
       IF ~ok THEN voiceFiles' = voiceFiles
       ELSE voiceFiles' = [voiceFiles EXCEPT ![r] =
              [@ EXCEPT !.status = "failed", !.errorMessage = innerError[r],
                        !.s3Key = voiceFile[r].s3Key, !.audioUrl = voiceFile[r].audioUrl,
                        !.fileSize = voiceFile[r].fileSize,
                        !.duration = voiceFile[r].duration]]
  /\ usage' = [usage EXCEPT !.requestsCount = @ + 1]
  /\ Respond(r, ConvertFailed)
  /\ UNCHANGED <<now, userSub, plan, extCalls, committed>>
  /\ UNCHANGED otherVars

\* the inner catch: status = "failed", errorMessage = innerError.message, save, rethrow;
\* the outer catch answers 500 (also when this save itself fails)
convertCatch(r) ==
  /\ pc[r] = "catch"
  /\ \E ok \in BOOLEAN :
       IF ~ok THEN voiceFiles' = voiceFiles
       ELSE voiceFiles' = [voiceFiles EXCEPT ![r] =
              [@ EXCEPT !.status = "failed", !.errorMessage = innerError[r],
                        !.s3Key = voiceFile[r].s3Key, !.audioUrl = voiceFile[r].audioUrl,
                        !.fileSize = voiceFile[r].fileSize,
                        !.duration = voiceFile[r].duration]]
  /\ Respond(r, ConvertFailed)
  /\ UNCHANGED <<now, userSub, plan, usage, extCalls, committed>>
  /\ UNCHANGED otherVars

Next ==
  \/ Tick
  \/ \E r \in Requests : Arrive(r)
  \/ \E r \in Requests : checkSubscription(r)
  \/ \E r \in Requests : checkSubscriptionSaveExpired(r)
  \/ \E r \in Requests : checkCharacterLimit(r)
  \/ \E r \in Requests : checkConcurrentRequests(r)
  \/ \E r \in Requests : ttsLimiter(r)
  \/ \E r \in Requests : handleValidationErrors(r)
  \/ \E r \in Requests : convertFetchUser(r)
  \/ \E r \in Requests : convertGetUsage(r)
  \/ \E r \in Requests : convertGetVoice(r)
  \/ \E r \in Requests : convertCreateJob(r)
  \/ \E r \in Requests : synthesizeText(r)
  \/ \E r \in Requests : uploadAudioFile(r)
  \/ \E r \in Requests : generatePresignedDownloadUrl(r)
  \/ \E r \in Requests : convertSaveCompleted(r)
  \/ \E r \in Requests : convertAddUsage(r)
  \/ \E r \in Requests : convertCatch(r)

Spec == Init /\ [][Next]_vars

\* The steps of request r that the process takes by itself or on an answer of the database
\* (whose driver bounds its waits).  The rest of its steps wait on the speech provider
\* (polly.send) or on the storage (s3.send): the clients are built and called without a
\* timeout or abort signal, so nothing makes those steps happen.
LocalStep(r) ==
  \/ checkSubscription(r) \/ checkSubscriptionSaveExpired(r) \/ checkCharacterLimit(r)
  \/ checkConcurrentRequests(r) \/ ttsLimiter(r) \/ handleValidationErrors(r)
  \/ convertFetchUser(r) \/ convertGetUsage(r) \/ convertCreateJob(r)
  \/ generatePresignedDownloadUrl(r) \/ convertSaveCompleted(r) \/ convertAddUsage(r)
  \/ convertCatch(r)

\* the event loop runs every continuation that is ready
SpecLive == Init /\ [][Next]_vars /\ \A r \in Requests : WF_vars(LocalStep(r))

\* ------------------------------------------------------------ plans of any concurrency limit
\* The convert pipeline of a subscribed user whose plan configures a limit of 0 or 1 concurrent
\* requests, or none.
PlansOfAnyLimit == [charactersPerMonth : {CharsPerMonth}, maxConcurrentRequests : {Unset, 0, 1}]

InitAnyLimit ==
  /\ OtherIdle
  /\ now = 0
  /\ userSub = [status |-> "active", endDate |-> SubEndDate]
  /\ plan \in PlansOfAnyLimit
  /\ usage = NoUsage
  /\ voiceFiles = [r \in Requests |-> NoJob]
  /\ pc = [r \in Requests |-> "idle"]
  /\ body = [r \in Requests |-> NoBody]
  /\ voiceFile = [r \in Requests |-> NoJob]
  /\ usageDoc = [r \in Requests |-> NoUsage]
  /\ synthesisResult = [r \in Requests |-> 0]
  /\ innerError = [r \in Requests |-> ""]
  /\ resp = [r \in Requests |-> NoResp]
  /\ extCalls = [r \in Requests |-> {}]
  /\ committed = [r \in Requests |-> 0]

SpecAnyLimit == InitAnyLimit /\ [][Next]_vars

\* ------------------------------------------------------------ the quota pre-check alone
\* The two quota pre-checks on a usage record and a text of any size: the period's record
\* exists with (charactersUsed, limit) among QuotaCases, every request stands before the
\* middleware's check (which reads its text) or before the controller's (its text read).
QuotaCases == {<<0, 1>>, <<1, 1>>, <<2, 1>>, <<1, 2>>, <<4980, 5000>>, <<4990, 5000>>}
QuotaLengths == {1, 2, 10, 20}
UsageOf(c) == [exists |-> TRUE, charactersUsed |-> c[1], charactersLimit |-> c[2],
               requestsCount |-> IF c[1] > 0 THEN 1 ELSE 0,
               audioFilesGenerated |-> IF c[1] > 0 THEN 1 ELSE 0,
               totalAudioDuration |-> IF c[1] > 0 THEN 1 ELSE 0]
BodyOf(n) == [NoBody EXCEPT !.text = [len |-> n, words |-> WordsOf(n)],
                            !.voiceId = "Joanna", !.outputFormat = "mp3", !.engine = "standard"]

InitQuota ==
  /\ OtherIdle
  /\ now = 0
  /\ userSub = [status |-> "active", endDate |-> SubEndDate]
  /\ \E c \in QuotaCases :
       /\ plan = [charactersPerMonth |-> c[2], maxConcurrentRequests |-> Unset]
       /\ usage = UsageOf(c)
  /\ voiceFiles = [r \in Requests |-> NoJob]
  /\ pc \in [Requests -> {"checkCharacterLimit", "convertGetUsage"}]
  /\ body \in [Requests -> {NoBody} \cup {BodyOf(n) : n \in QuotaLengths}]
  /\ \A r \in Requests : (pc[r] = "checkCharacterLimit") <=> (body[r] = NoBody)
  /\ voiceFile = [r \in Requests |-> NoJob]
  /\ usageDoc = [r \in Requests |-> NoUsage]
  /\ synthesisResult = [r \in Requests |-> 0]
  /\ innerError = [r \in Requests |-> ""]
  /\ resp = [r \in Requests |-> NoResp]
  /\ extCalls = [r \in Requests |-> {}]
  /\ committed = [r \in Requests |-> 0]

NextQuota ==
  \/ \E r \in Requests : checkCharacterLimit(r)
  \/ \E r \in Requests : convertGetUsage(r)

SpecQuota == InitQuota /\ [][NextQuota]_vars

\* ------------------------------------------------------------ the subscriptions of a user
\* subscribeToPlan, cancelSubscription (plan controller), approveSubscription,
\* updateSubscription (admin controller) and the lazy expiry of the gate, each await a step.
SubStatuses == {"pending", "active", "cancelled", "expired"}
Actives == {i \in SubIds : subs[i] = "active"}
Existing == {i \in SubIds : subs[i] # "none"}

\* operation o starts as kind and moves to label with the locals id and status
SubStart(o, kind, label, id, status) ==
  subOps' = [subOps EXCEPT ![o] = [kind |-> kind, pc |-> label, sub |-> id,
                                   status |-> status, resp |-> 0]]
SubGoto(o, label) == subOps' = [subOps EXCEPT ![o].pc = label]
SubRespond(o, code) == subOps' = [subOps EXCEPT ![o].pc = "done", ![o].resp = code]
SubStartRespond(o, kind, code) ==
  subOps' = [subOps EXCEPT ![o] = [kind |-> kind, pc |-> "done", sub |-> NoRef,
                                   status |-> "", resp |-> code]]
At(o, kind, label) == subOps[o].kind = kind /\ subOps[o].pc = label

\* subscribeToPlan up to its save: Plan.findById, 404 if there is none;
\* findOne({user, status in active, pending}), 400 if found;
\* the new document is pending for the manual payment method, active for any other
subscribeToPlan(o) ==
  /\ subOps[o].pc = "idle"
  /\ \E paymentMethod \in {"manual", "card"} :
       IF ~planExists THEN SubStartRespond(o, "subscribe", 404)
       ELSE IF \E i \in SubIds : subs[i] \in {"active", "pending"}
         THEN SubStartRespond(o, "subscribe", 400)
         ELSE SubStart(o, "subscribe", "save", NoRef,
                       IF paymentMethod = "manual" THEN "pending" ELSE "active")
  /\ UNCHANGED <<subs, userRef>>
  /\ UNCHANGED <<convertVars, fileVars, laterVars>>

\* await subscription.save(): the record is inserted under a new id
subscribeSave(o) ==
  /\ At(o, "subscribe", "save")
  /\ \E i \in SubIds :
       /\ subs[i] = "none"
       /\ \A j \in SubIds : j < i => subs[j] # "none"
       /\ subs' = [subs EXCEPT ![i] = subOps[o].status]
       /\ IF subOps[o].status = "active"
            THEN subOps' = [subOps EXCEPT ![o].pc = "setRef", ![o].sub = i]
            ELSE SubRespond(o, 201)
  /\ UNCHANGED userRef
  /\ UNCHANGED <<convertVars, fileVars, laterVars>>

\* User.findByIdAndUpdate(.., {subscription: subscription._id}), then 201
subscribeSetRef(o) ==
  /\ At(o, "subscribe", "setRef")
  /\ userRef' = subOps[o].sub
  /\ SubRespond(o, 201)
  /\ UNCHANGED subs
  /\ UNCHANGED <<convertVars, fileVars, laterVars>>

\* cancelSubscription up to its save: findOne({user, status: 'active'}), 404 if none
cancelSubscription(o) ==
  /\ subOps[o].pc = "idle"
  /\ IF Actives = {} THEN SubStartRespond(o, "cancel", 404)
     ELSE \E i \in Actives : SubStart(o, "cancel", "save", i, "cancelled")
  /\ UNCHANGED <<subs, userRef>>
  /\ UNCHANGED <<convertVars, fileVars, laterVars>>

cancelSave(o) ==
  /\ At(o, "cancel", "save")
  /\ subs' = [subs EXCEPT ![subOps[o].sub] = subOps[o].status]
  /\ SubGoto(o, "unsetRef")
  /\ UNCHANGED userRef
  /\ UNCHANGED <<convertVars, fileVars, laterVars>>

\* User.findByIdAndUpdate(.., {$unset: {subscription: 1}}), then 200
cancelUnsetRef(o) ==
  /\ At(o, "cancel", "unsetRef")
  /\ userRef' = NoRef
  /\ SubRespond(o, 200)
  /\ UNCHANGED subs
  /\ UNCHANGED <<convertVars, fileVars, laterVars>>

\* approveSubscription up to its first write: findById with its plan populated, 400 unless
\* pending; approved reads subscription.plan.duration (a TypeError, hence 500, if the plan is
\* gone) and sets the document active (saved last), rejected sets it cancelled
approveSubscription(o) ==
  /\ subOps[o].pc = "idle"
  /\ Existing # {}
  /\ \E i \in Existing, approved \in BOOLEAN :
       IF subs[i] # "pending" THEN SubStartRespond(o, "approve", 400)
       ELSE IF approved /\ ~planExists THEN SubStartRespond(o, "approve", 500)
       ELSE IF approved THEN SubStart(o, "approve", "cancelOthers", i, "active")
       ELSE SubStart(o, "approve", "save", i, "cancelled")
  /\ UNCHANGED <<subs, userRef>>
  /\ UNCHANGED <<convertVars, fileVars, laterVars>>

\* Subscription.updateMany({user, _id: {$ne: subscriptionId}, status: 'active'}, cancelled)
approveCancelOthers(o) ==
  /\ At(o, "approve", "cancelOthers")
  /\ subs' = [i \in SubIds |->
                IF i # subOps[o].sub /\ subs[i] = "active" THEN "cancelled" ELSE subs[i]]
  /\ SubGoto(o, "setRef")
  /\ UNCHANGED userRef
  /\ UNCHANGED <<convertVars, fileVars, laterVars>>

approveSetRef(o) ==
  /\ At(o, "approve", "setRef")
  /\ userRef' = subOps[o].sub
  /\ SubGoto(o, "save")
  /\ UNCHANGED subs
  /\ UNCHANGED <<convertVars, fileVars, laterVars>>

\* await subscription.save(), then 200
approveSave(o) ==
  /\ At(o, "approve", "save")
  /\ subs' = [subs EXCEPT ![subOps[o].sub] = subOps[o].status]
  /\ SubRespond(o, 200)
  /\ UNCHANGED userRef
  /\ UNCHANGED <<convertVars, fileVars, laterVars>>

\* updateSubscription up to its save: findById; if (status) subscription.status = status
updateSubscription(o) ==
  /\ subOps[o].pc = "idle"
  /\ Existing # {}
  /\ \E i \in Existing, status \in SubStatuses \cup {""} :
       SubStart(o, "update", "save", i, status)
  /\ UNCHANGED <<subs, userRef>>
  /\ UNCHANGED <<convertVars, fileVars, laterVars>>

\* await subscription.save() writes the status if the request set one, then 200
updateSave(o) ==
  /\ At(o, "update", "save")
  /\ subs' = IF subOps[o].status = "" THEN subs
             ELSE [subs EXCEPT ![subOps[o].sub] = subOps[o].status]
  /\ SubRespond(o, 200)
  /\ UNCHANGED userRef
  /\ UNCHANGED <<convertVars, fileVars, laterVars>>

\* the gate (checkSubscription) on the subscription the user refers to: no subscription,
\* not active, or active with its endDate passed or not
lazyExpiry(o) ==
  /\ subOps[o].pc = "idle"
  /\ \E passed \in BOOLEAN :
       IF userRef = NoRef \/ subs[userRef] = "none" THEN SubStartRespond(o, "gate", 403)
       ELSE IF subs[userRef] # "active" THEN SubStartRespond(o, "gate", 403)
       ELSE IF passed THEN SubStart(o, "gate", "save", userRef, "expired")
       ELSE SubStartRespond(o, "gate", 200)
  /\ UNCHANGED <<subs, userRef>>
  /\ UNCHANGED <<convertVars, fileVars, laterVars>>

\* user.subscription.status = 'expired'; await user.subscription.save(); 403
lazyExpirySave(o) ==
  /\ At(o, "gate", "save")
  /\ subs' = [subs EXCEPT ![subOps[o].sub] = subOps[o].status]
  /\ SubRespond(o, 403)
  /\ UNCHANGED userRef
  /\ UNCHANGED <<convertVars, fileVars, laterVars>>

\* deletePlan up to the delete: Subscription.countDocuments({plan, status: 'active'}), 400
\* if there is one
deletePlan(o) ==
  /\ subOps[o].pc = "idle"
  /\ IF Actives # {} THEN SubStartRespond(o, "deletePlan", 400)
     ELSE SubStart(o, "deletePlan", "delete", NoRef, "")
  /\ UNCHANGED <<subs, userRef>>
  /\ UNCHANGED <<convertVars, fileVars, cleanVars, otpVars, planExists>>

\* Plan.findByIdAndDelete(planId): 404 if there was none, else 200
deletePlanDelete(o) ==
  /\ At(o, "deletePlan", "delete")
  /\ planExists' = FALSE
  /\ SubRespond(o, IF planExists THEN 200 ELSE 404)
  /\ UNCHANGED <<subs, userRef>>
  /\ UNCHANGED <<convertVars, fileVars, cleanVars, otpVars>>

InitSubs ==
  /\ OtherIdle
  /\ now = 0
  /\ userSub = NoSub
  /\ plan \in Plans
  /\ usage = NoUsage
  /\ voiceFiles = [r \in Requests |-> NoJob]
  /\ pc = [r \in Requests |-> "idle"]
  /\ body = [r \in Requests |-> NoBody]
  /\ voiceFile = [r \in Requests |-> NoJob]
  /\ usageDoc = [r \in Requests |-> NoUsage]
  /\ synthesisResult = [r \in Requests |-> 0]
  /\ innerError = [r \in Requests |-> ""]
  /\ resp = [r \in Requests |-> NoResp]
  /\ extCalls = [r \in Requests |-> {}]
  /\ committed = [r \in Requests |-> 0]

NextSubs ==
  \/ \E o \in SubOps : subscribeToPlan(o)
  \/ \E o \in SubOps : subscribeSave(o)
  \/ \E o \in SubOps : subscribeSetRef(o)
  \/ \E o \in SubOps : cancelSubscription(o)
  \/ \E o \in SubOps : cancelSave(o)
  \/ \E o \in SubOps : cancelUnsetRef(o)
  \/ \E o \in SubOps : approveSubscription(o)
  \/ \E o \in SubOps : approveCancelOthers(o)
  \/ \E o \in SubOps : approveSetRef(o)
  \/ \E o \in SubOps : approveSave(o)
  \/ \E o \in SubOps : updateSubscription(o)
  \/ \E o \in SubOps : updateSave(o)
  \/ \E o \in SubOps : lazyExpiry(o)
  \/ \E o \in SubOps : lazyExpirySave(o)

SpecSubs == InitSubs /\ [][NextSubs]_vars

\* the subscriptions of a user to a plan an admin may delete
NextPlans ==
  \/ \E o \in SubOps : subscribeToPlan(o)
  \/ \E o \in SubOps : subscribeSave(o)
  \/ \E o \in SubOps : subscribeSetRef(o)
  \/ \E o \in SubOps : approveSubscription(o)
  \/ \E o \in SubOps : approveCancelOthers(o)
  \/ \E o \in SubOps : approveSetRef(o)
  \/ \E o \in SubOps : approveSave(o)
  \/ \E o \in SubOps : deletePlan(o)
  \/ \E o \in SubOps : deletePlanDelete(o)

SpecPlans == InitSubs /\ [][NextPlans]_vars

\* a user whose first subscription is active and referred to by the user record
InitSubscribed ==
  /\ RequestsIdle
  /\ now = 0
  /\ userSub = NoSub
  /\ plan = [charactersPerMonth |-> CharsPerMonth, maxConcurrentRequests |-> Unset]
  /\ usage = NoUsage
  /\ voiceFiles = [r \in Requests |-> NoJob]
  /\ subs = [i \in SubIds |-> IF i = 1 THEN "active" ELSE "none"]
  /\ userRef = 1
  /\ subOps = [o \in SubOps |-> NoSubOp]
  /\ objects = [k \in AllKeys |-> NoObject]
  /\ FileOpsIdle
  /\ createdAt = [r \in Requests |-> NoDate]
  /\ CleanIdle
  /\ OtpIdle
  /\ planExists = TRUE

SpecSubscribed == InitSubscribed /\ [][NextSubs]_vars

\* ------------------------------------------------------------ the deletion of an account
\* the VoiceFile a finished conversion of request r left: completed with its key, or failed
\* with the placeholders of the new document
CompletedFile(r) ==
  [NewVoiceFile EXCEPT !.status = "completed", !.s3Key = KeyOf(r),
                       !.audioUrl = "https://signed", !.duration = 1, !.fileSize = 1]
FailedFile ==
  [NewVoiceFile EXCEPT !.status = "failed", !.errorMessage = "Failed to synthesize speech"]
FilesOf(r) == {NoJob, CompletedFile(r), FailedFile}
\* the bucket holds the audio of the completed files
ObjectsOf(files) ==
  [k \in AllKeys |->
     IF \E r \in Requests : files[r].status = "completed" /\ KeyOf(r) = k
       THEN AudioOf(CHOOSE r \in Requests : KeyOf(r) = k)
       ELSE NoObject]

Removed ==
  /\ userSub = NoUser
  /\ \A r \in Requests : voiceFiles[r] = NoJob
  /\ usage = NoUsage
  /\ \A i \in SubIds : subs[i] = "none"

DelRespond(o, code) == delOps' = [delOps EXCEPT ![o].pc = "done", ![o].resp = code]
DelAt(o, kind, label) == delOps[o].kind = kind /\ delOps[o].pc = label

\* one of the deletes a Promise.all runs: Model.deleteMany({user}) or User.findByIdAndDelete
deleteRecords(model) ==
  /\ voiceFiles' = IF model = "VoiceFile" THEN [r \in Requests |-> NoJob] ELSE voiceFiles
  /\ usage' = IF model = "Usage" THEN NoUsage ELSE usage
  /\ subs' = IF model = "Subscription" THEN [i \in SubIds |-> "none"] ELSE subs
  /\ userSub' = IF model = "User" \/ userSub = NoUser THEN NoUser
                ELSE IF model = "Subscription" THEN NoSub ELSE userSub
  /\ userRef' = IF model = "User" THEN NoRef ELSE userRef

\* admin deleteUser: User.findById, 404 if there is none
deleteUser(o) ==
  /\ delOps[o].pc = "idle"
  /\ delOps' = [delOps EXCEPT ![o] =
       IF userSub = NoUser THEN [NoDelOp EXCEPT !.kind = "deleteUser", !.pc = "done", !.resp = 404]
       ELSE [NoDelOp EXCEPT !.kind = "deleteUser", !.pc = "find"]]
  /\ UNCHANGED <<convertVars, subVars, objects, urls, dlOps, laterVars>>

\* const userFiles = await VoiceFile.find({user}); s3Keys = userFiles.map(file => file.s3Key)
deleteUserFind(o) ==
  /\ DelAt(o, "deleteUser", "find")
  /\ delOps' = [delOps EXCEPT ![o].pc = "deleteData",
                              ![o].s3Keys = {voiceFiles[r].s3Key :
                                               r \in {q \in Requests : voiceFiles[q] # NoJob}},
                              ![o].pending = {"VoiceFile", "Usage", "Subscription"}]
  /\ UNCHANGED <<convertVars, subVars, objects, urls, dlOps, laterVars>>

\* await Promise.all([..deleteMany..]): the deletes run in any order; after the last one
\* deleteUser goes on to the bucket (if (s3Keys.length > 0)) and deleteAccount answers 200
deleteData(o) ==
  /\ delOps[o].pc = "deleteData"
  /\ \E model \in delOps[o].pending :
       /\ deleteRecords(model)
       /\ delOps' = [delOps EXCEPT
            ![o].pending = @ \ {model},
            ![o].pc = IF delOps[o].pending # {model} THEN "deleteData"
                      ELSE IF delOps[o].kind = "deleteAccount" THEN "done"
                      ELSE IF delOps[o].s3Keys # {} THEN "deleteMultipleFiles"
                      ELSE "deleteUserRecord",
            ![o].resp = IF delOps[o].pending = {model} /\ delOps[o].kind = "deleteAccount"
                        THEN 200 ELSE @]
  /\ UNCHANGED <<now, plan, pc, body, voiceFile, usageDoc, synthesisResult, innerError, resp,
                 extCalls, committed>>
  /\ UNCHANGED <<subOps, objects, urls, dlOps, laterVars>>

\* the DeleteObjects command removes the objects of some of the keys
DeleteObjects(removed) ==
  objects' = [k \in AllKeys |-> IF k \in removed THEN NoObject ELSE objects[k]]

\* try { await storageService.deleteMultipleFiles(s3Keys) } catch (s3Error) { log }: the
\* command removes all, some or none of the objects and the call returns or throws
\* 'Failed to delete files', which is logged
\* the call without its try: the error ends deleteUser in the outer catch with 500
deleteMultipleFilesUncaught(o) ==
  /\ DelAt(o, "deleteUser", "deleteMultipleFiles")
  /\ \E removed \in SUBSET (delOps[o].s3Keys \cap AllKeys), throws \in BOOLEAN :
       /\ DeleteObjects(removed)
       /\ delOps' = [delOps EXCEPT
            ![o].failed = throws \/ removed # delOps[o].s3Keys \cap AllKeys,
            ![o].pc = IF throws THEN "done" ELSE "deleteUserRecord",
            ![o].resp = IF throws THEN 500 ELSE @]
  /\ UNCHANGED <<convertVars, subVars, urls, dlOps, laterVars>>

deleteMultipleFiles(o) ==
  /\ DelAt(o, "deleteUser", "deleteMultipleFiles")
  /\ \E removed \in SUBSET (delOps[o].s3Keys \cap AllKeys), throws \in BOOLEAN :
       /\ DeleteObjects(removed)
       /\ delOps' = [delOps EXCEPT
            ![o].failed = throws \/ removed # delOps[o].s3Keys \cap AllKeys,
            ![o].pc = "deleteUserRecord"]
  /\ UNCHANGED <<convertVars, subVars, urls, dlOps, laterVars>>

\* await User.findByIdAndDelete(userId); 200
deleteUserRecord(o) ==
  /\ DelAt(o, "deleteUser", "deleteUserRecord")
  /\ deleteRecords("User")
  /\ DelRespond(o, 200)
  /\ UNCHANGED <<now, plan, pc, body, voiceFile, usageDoc, synthesisResult, innerError, resp,
                 extCalls, committed>>
  /\ UNCHANGED <<subOps, objects, urls, dlOps, laterVars>>

\* the user's own deleteAccount: User.findById, 404 if there is none; comparePassword, 400 if
\* wrong; then one Promise.all of the four deletes (the bucket is not touched)
deleteAccount(o) ==
  /\ delOps[o].pc = "idle"
  /\ \E isPasswordValid \in BOOLEAN :
       delOps' = [delOps EXCEPT ![o] =
         IF userSub = NoUser
           THEN [NoDelOp EXCEPT !.kind = "deleteAccount", !.pc = "done", !.resp = 404]
         ELSE IF ~isPasswordValid
           THEN [NoDelOp EXCEPT !.kind = "deleteAccount", !.pc = "done", !.resp = 400]
         ELSE [NoDelOp EXCEPT !.kind = "deleteAccount", !.pc = "deleteData",
                              !.pending = {"VoiceFile", "Usage", "Subscription", "User"}]]
  /\ UNCHANGED <<convertVars, subVars, objects, urls, dlOps, laterVars>>

\* an account with an active subscription, this period's Usage record and the files its
\* conversions left
InitDelete ==
  /\ RequestsIdle
  /\ now = 0
  /\ plan = [charactersPerMonth |-> CharsPerMonth, maxConcurrentRequests |-> Unset]
  /\ userSub = [status |-> "active", endDate |-> SubEndDate]
  /\ subs = [i \in SubIds |-> IF i = 1 THEN "active" ELSE "none"]
  /\ userRef = 1
  /\ subOps = [o \in SubOps |-> NoSubOp]
  /\ usage = getOrCreateCurrentUsage(NoUsage, plan)
  /\ voiceFiles \in {f \in [Requests -> UNION {FilesOf(r) : r \in Requests}] :
                       \A r \in Requests : f[r] \in FilesOf(r)}
  /\ objects = ObjectsOf(voiceFiles)
  /\ FileOpsIdle
  /\ createdAt = [r \in Requests |-> NoDate]
  /\ CleanIdle
  /\ OtpIdle
  /\ planExists = TRUE

NextDelete ==
  \/ \E o \in DelOps : deleteUser(o)
  \/ \E o \in DelOps : deleteUserFind(o)
  \/ \E o \in DelOps : deleteData(o)
  \/ \E o \in DelOps : deleteMultipleFiles(o)
  \/ \E o \in DelOps : deleteUserRecord(o)
  \/ \E o \in DelOps : deleteAccount(o)

SpecDelete == InitDelete /\ [][NextDelete]_vars

\* ------------------------------------------------------------ download URLs
\* getSignedUrl(s3, new GetObjectCommand({Bucket, Key: key, ..}), {expiresIn}): the URL names
\* the key and carries the date of its signature
getSignedUrl(key, date) == [key |-> key, date |-> date]
\* the bytes a GET of the URL returns
Resolve(url) == IF url.key \in AllKeys THEN objects[url.key] ELSE NoObject

DlRespond(o, code) == dlOps' = [dlOps EXCEPT ![o].pc = "done", ![o].resp = code]

\* getDownloadUrl up to the signature: VoiceFile.findOne({_id: fileId, user, status:
\* "completed"}), 404 if there is none.  The files are those of the user "owner".
\* the query without its user filter
getDownloadUrlOfAnyUser(o) ==
  /\ dlOps[o].pc = "idle"
  /\ \E fileId \in Requests, user \in {"owner", "other"} :
       dlOps' = [dlOps EXCEPT ![o] =
         IF voiceFiles[fileId].status = "completed"
           THEN [pc |-> "sign", user |-> user, file |-> fileId, doc |-> voiceFiles[fileId],
                 resp |-> 0]
           ELSE [NoDlOp EXCEPT !.pc = "done", !.user = user, !.file = fileId, !.resp = 404]]
  /\ UNCHANGED <<convertVars, subVars, objects, urls, delOps, laterVars>>

getDownloadUrl(o) ==
  /\ dlOps[o].pc = "idle"
  /\ \E fileId \in Requests, user \in {"owner", "other"} :
       dlOps' = [dlOps EXCEPT ![o] =
         IF user = "owner" /\ voiceFiles[fileId].status = "completed"
           THEN [pc |-> "sign", user |-> user, file |-> fileId, doc |-> voiceFiles[fileId],
                 resp |-> 0]
           ELSE [NoDlOp EXCEPT !.pc = "done", !.user = user, !.file = fileId, !.resp = 404]]
  /\ UNCHANGED <<convertVars, subVars, objects, urls, delOps, laterVars>>

\* await storageService.generatePresignedDownloadUrl(voiceFile.s3Key, voiceFile.filename,
\* 3600): a GetObjectCommand is signed; 'Failed to generate download URL' ends in 500
getDownloadUrlSign(o) ==
  /\ dlOps[o].pc = "sign"
  /\ \E ok \in BOOLEAN :
       IF ok
         THEN /\ urls' = urls \cup {[file |-> dlOps[o].file, user |-> dlOps[o].user,
                                     url |-> getSignedUrl(dlOps[o].doc.s3Key, now)]}
              /\ dlOps' = [dlOps EXCEPT ![o].pc = "save"]
         ELSE urls' = urls /\ DlRespond(o, 500)
  /\ UNCHANGED <<convertVars, subVars, objects, delOps, laterVars>>

\* voiceFile.downloadCount += 1; voiceFile.lastDownloadedAt = new Date();
\* await voiceFile.save() writes the two fields; 200 with the URL
\* the save, had it written the document back under a new key
getDownloadUrlSaveRekeyed(o) ==
  /\ dlOps[o].pc = "save"
  /\ voiceFiles' = [voiceFiles EXCEPT ![dlOps[o].file] =
       [@ EXCEPT !.downloadCount = dlOps[o].doc.downloadCount + 1,
                 !.lastDownloadedAt = now, !.s3Key = PENDING]]
  /\ DlRespond(o, 200)
  /\ UNCHANGED <<now, userSub, plan, usage, pc, body, voiceFile, usageDoc, synthesisResult,
                 innerError, resp, extCalls, committed>>
  /\ UNCHANGED <<subVars, objects, urls, delOps, laterVars>>

getDownloadUrlSave(o) ==
  /\ dlOps[o].pc = "save"
  /\ voiceFiles' = [voiceFiles EXCEPT ![dlOps[o].file] =
       [@ EXCEPT !.downloadCount = dlOps[o].doc.downloadCount + 1,
                 !.lastDownloadedAt = now]]
  /\ DlRespond(o, 200)
  /\ UNCHANGED <<now, userSub, plan, usage, pc, body, voiceFile, usageDoc, synthesisResult,
                 innerError, resp, extCalls, committed>>
  /\ UNCHANGED <<subVars, objects, urls, delOps, laterVars>>

\* the files getDownloadUrl may be asked for: also one still in processing
DownloadFilesOf(r) == FilesOf(r) \cup {NewVoiceFile}

\* a user with the files earlier conversions left, and the clock
InitDownload ==
  /\ RequestsIdle
  /\ SubsIdle
  /\ now = 0
  /\ plan = [charactersPerMonth |-> CharsPerMonth, maxConcurrentRequests |-> Unset]
  /\ userSub = [status |-> "active", endDate |-> SubEndDate]
  /\ usage = getOrCreateCurrentUsage(NoUsage, plan)
  /\ voiceFiles \in {f \in [Requests -> UNION {DownloadFilesOf(r) : r \in Requests}] :
                       \A r \in Requests : f[r] \in DownloadFilesOf(r)}
  /\ objects = ObjectsOf(voiceFiles)
  /\ FileOpsIdle
  /\ createdAt = [r \in Requests |-> NoDate]
  /\ CleanIdle
  /\ OtpIdle
  /\ planExists = TRUE

NextDownload ==
  \/ Tick
  \/ \E o \in DlOps : getDownloadUrl(o)
  \/ \E o \in DlOps : getDownloadUrlSign(o)
  \/ \E o \in DlOps : getDownloadUrlSave(o)

SpecDownload == InitDownload /\ [][NextDownload]_vars

\* ------------------------------------------------------------ utils/cleanup.js
\* dates are counted in days here.  The four tasks of a full cleanup
CleanupTasks == {"expiredFiles", "expiredOTPs", "failedFiles", "orphanedFiles"}
\* the requests whose VoiceFile the query of a task matches
ExpiredFiles ==
  {r \in Requests : voiceFiles[r].status = "completed" /\ createdAt[r] < now - RetentionDays}
OldFailedFiles ==
  {r \in Requests : voiceFiles[r].status = "failed" /\ createdAt[r] < now - FailedDays}
\* the objects of the bucket (LastModified: the day of the request) no VoiceFile names
OrphanedKeys ==
  {r \in Requests : /\ objects[KeyOf(r)] # NoObject
                    /\ \A q \in Requests : voiceFiles[q].s3Key # KeyOf(r)
                    /\ createdAt[r] < now - OrphanDays}
\* the objects last modified more than daysOld days ago
ObjectsOlderThan(daysOld) ==
  {r \in Requests : objects[KeyOf(r)] # NoObject /\ createdAt[r] < now - daysOld}

CleanAt(o, label) == cleanOps[o].pc = label
Running(o) == cleanOps[o].kind = "full" /\ cleanOps[o].pc = "tasks"

\* runFullCleanup up to its first await: returns at once if isRunning, else sets the flag and
\* starts the four tasks (Promise.allSettled)
runFullCleanup(o) ==
  /\ CleanAt(o, "idle")
  /\ IF isRunning
       THEN /\ cleanOps' = [cleanOps EXCEPT ![o] =
                 [NoCleanOp EXCEPT !.kind = "full", !.pc = "done", !.result = "skipped"]]
            /\ isRunning' = isRunning
       ELSE /\ cleanOps' = [cleanOps EXCEPT ![o] =
                 [NoCleanOp EXCEPT !.kind = "full", !.pc = "tasks", !.exp = "find",
                                   !.pending = CleanupTasks \ {"expiredFiles"},
                                   !.started = CleanupTasks]]
            /\ isRunning' = TRUE
  /\ UNCHANGED <<convertVars, subVars, fileVars, createdAt, otpVars, planExists>>

\* manualCleanup('files'): cleanupExpiredFiles alone, whatever isRunning
manualCleanup(o) ==
  /\ CleanAt(o, "idle")
  /\ cleanOps' = [cleanOps EXCEPT ![o] =
       [NoCleanOp EXCEPT !.kind = "files", !.pc = "tasks", !.exp = "find",
                         !.started = {"expiredFiles"}]]
  /\ UNCHANGED <<convertVars, subVars, fileVars, createdAt, isRunning, otpVars, planExists>>

\* cleanupExpiredFiles: VoiceFile.find({createdAt < cutoffDate, status: 'completed'}); an
\* error of the query is rethrown
cleanupExpiredFilesFind(o) ==
  /\ CleanAt(o, "tasks") /\ cleanOps[o].exp = "find"
  /\ \E ok \in BOOLEAN :
       cleanOps' = [cleanOps EXCEPT ![o] =
         IF ok THEN [@ EXCEPT !.exp = "loop", !.files = ExpiredFiles]
         ELSE [@ EXCEPT !.exp = "settled", !.rejected = TRUE]]
  /\ UNCHANGED <<convertVars, subVars, fileVars, createdAt, isRunning, otpVars, planExists>>

\* for (const file of expiredFiles): await storageService.deleteFile(file.s3Key); an error
\* is counted and the loop goes on with the next file
cleanupExpiredFilesDeleteFile(o) ==
  /\ CleanAt(o, "tasks") /\ cleanOps[o].exp = "loop" /\ cleanOps[o].files # {}
  /\ LET r == CHOOSE q \in cleanOps[o].files : \A x \in cleanOps[o].files : q <= x IN
     \E ok \in BOOLEAN :
       IF ok
         THEN /\ objects' = [objects EXCEPT ![KeyOf(r)] = NoObject]
              /\ cleanOps' = [cleanOps EXCEPT ![o].exp = "record", ![o].file = r,
                                              ![o].removed = @ \cup {r}]
         ELSE /\ objects' = objects
              /\ cleanOps' = [cleanOps EXCEPT ![o].files = @ \ {r}]
  /\ UNCHANGED <<convertVars, subVars, urls, delOps, dlOps, createdAt, isRunning, otpVars,
                 planExists>>

\* await VoiceFile.findByIdAndDelete(file._id); an error is counted like one of deleteFile
cleanupExpiredFilesDeleteRecord(o) ==
  /\ CleanAt(o, "tasks") /\ cleanOps[o].exp = "record"
  /\ \E ok \in BOOLEAN :
       /\ voiceFiles' = IF ok THEN [voiceFiles EXCEPT ![cleanOps[o].file] = NoJob]
                        ELSE voiceFiles
       /\ cleanOps' = [cleanOps EXCEPT ![o].exp = "loop", ![o].files = @ \ {cleanOps[o].file},
                                       ![o].file = 0,
                                       ![o].dropped = IF ok THEN @ \cup {cleanOps[o].file}
                                                      ELSE @]
  /\ UNCHANGED <<now, userSub, plan, usage, pc, body, voiceFile, usageDoc, synthesisResult,
                 innerError, resp, extCalls, committed>>
  /\ UNCHANGED <<subVars, fileVars, createdAt, isRunning, otpVars, planExists>>

\* return {deletedCount, errorCount}: the task is fulfilled; manualCleanup returns it
cleanupExpiredFilesReturn(o) ==
  /\ CleanAt(o, "tasks") /\ cleanOps[o].exp = "loop" /\ cleanOps[o].files = {}
  /\ cleanOps' = [cleanOps EXCEPT ![o] =
       IF cleanOps[o].kind = "files" THEN [@ EXCEPT !.exp = "settled", !.pc = "done",
                                                    !.result = "counts"]
       ELSE [@ EXCEPT !.exp = "settled"]]
  /\ UNCHANGED <<convertVars, subVars, fileVars, createdAt, isRunning, otpVars, planExists>>

\* manualCleanup rethrows the error of cleanupExpiredFiles
manualCleanupThrow(o) ==
  /\ CleanAt(o, "tasks") /\ cleanOps[o].kind = "files" /\ cleanOps[o].exp = "settled"
  /\ cleanOps' = [cleanOps EXCEPT ![o].pc = "done", ![o].result = "thrown"]
  /\ UNCHANGED <<convertVars, subVars, fileVars, createdAt, isRunning, otpVars, planExists>>

\* one of the other three tasks settles.  cleanupFailedFiles: VoiceFile.deleteMany({status:
\* 'failed', createdAt < 7 days ago}); cleanupOrphanedS3Files: deleteMultipleFiles of the
\* objects older than a day that no VoiceFile names; cleanupExpiredOTPs: OTP.deleteMany of
\* the expired and used OTPs (there is no OTP while a cleanup is looked at)
cleanupTask(o) ==
  /\ CleanAt(o, "tasks")
  /\ \E task \in cleanOps[o].pending, ok \in BOOLEAN :
       /\ voiceFiles' = IF ok /\ task = "failedFiles"
                          THEN [r \in Requests |-> IF r \in OldFailedFiles THEN NoJob
                                                   ELSE voiceFiles[r]]
                          ELSE voiceFiles
       /\ \E removed \in SUBSET OrphanedKeys :
            /\ task # "orphanedFiles" \/ ~ok => removed = {}
            /\ objects' = [k \in AllKeys |->
                 IF \E r \in removed : KeyOf(r) = k THEN NoObject ELSE objects[k]]
       /\ cleanOps' = [cleanOps EXCEPT ![o].pending = @ \ {task},
                                       ![o].rejected = @ \/ ~ok]
  /\ UNCHANGED <<now, userSub, plan, usage, pc, body, voiceFile, usageDoc, synthesisResult,
                 innerError, resp, extCalls, committed>>
  /\ UNCHANGED <<subVars, urls, delOps, dlOps, createdAt, isRunning, otpVars, planExists>>

\* all four tasks have settled: the summary is returned and finally { this.isRunning = false }
\* the return without the finally block: the flag stays set after a rejected task
runFullCleanupFlagKept(o) ==
  /\ Running(o) /\ cleanOps[o].pending = {} /\ cleanOps[o].exp = "settled"
  /\ cleanOps' = [cleanOps EXCEPT ![o].pc = "done", ![o].result = "summary"]
  /\ isRunning' = IF cleanOps[o].rejected THEN isRunning ELSE FALSE
  /\ UNCHANGED <<convertVars, subVars, fileVars, createdAt, otpVars, planExists>>

runFullCleanupFinally(o) ==
  /\ Running(o) /\ cleanOps[o].pending = {} /\ cleanOps[o].exp = "settled"
  /\ cleanOps' = [cleanOps EXCEPT ![o].pc = "done", ![o].result = "summary"]
  /\ isRunning' = FALSE
  /\ UNCHANGED <<convertVars, subVars, fileVars, createdAt, otpVars, planExists>>

\* the admin endpoint POST /system/cleanup: storageService.cleanupExpiredFiles(daysOld) lists
\* the objects under audio/ and keeps those last modified before the cutoff; 200 with
\* deletedCount 0 if there is none, 500 if the listing fails
cleanupExpiredFiles(o) ==
  /\ CleanAt(o, "idle")
  /\ \E daysOld \in {RetentionDays, 0}, ok \in BOOLEAN :
       cleanOps' = [cleanOps EXCEPT ![o] =
         IF ~ok THEN [NoCleanOp EXCEPT !.kind = "admin", !.pc = "done", !.result = "500"]
         ELSE IF ObjectsOlderThan(daysOld) = {}
           THEN [NoCleanOp EXCEPT !.kind = "admin", !.pc = "done", !.result = "200"]
         ELSE [NoCleanOp EXCEPT !.kind = "admin", !.pc = "deleteMultipleFiles",
                                !.files = ObjectsOlderThan(daysOld)]]
  /\ UNCHANGED <<convertVars, subVars, fileVars, createdAt, isRunning, otpVars, planExists>>

\* await this.deleteMultipleFiles(keysToDelete): all, some or none of the objects are
\* removed; 200 with the counts, 500 if the call throws.  No VoiceFile is touched.
cleanupExpiredFilesDelete(o) ==
  /\ CleanAt(o, "deleteMultipleFiles")
  /\ \E removed \in SUBSET cleanOps[o].files, throws \in BOOLEAN :
       /\ objects' = [k \in AllKeys |->
            IF \E r \in removed : KeyOf(r) = k THEN NoObject ELSE objects[k]]
       /\ cleanOps' = [cleanOps EXCEPT ![o].pc = "done", ![o].removed = removed,
                                       ![o].result = IF throws THEN "500" ELSE "200"]
  /\ UNCHANGED <<convertVars, subVars, urls, delOps, dlOps, createdAt, isRunning, otpVars,
                 planExists>>

\* the files of a user 91 days after the first of them was created: each record is absent,
\* completed or failed, and 91 or 90 days old
InitRetention ==
  /\ RequestsIdle
  /\ SubsIdle
  /\ now = RetentionDays + 1
  /\ plan = [charactersPerMonth |-> CharsPerMonth, maxConcurrentRequests |-> Unset]
  /\ userSub = [status |-> "active", endDate |-> SubEndDate]
  /\ usage = getOrCreateCurrentUsage(NoUsage, plan)
  /\ voiceFiles \in {f \in [Requests -> UNION {FilesOf(r) : r \in Requests}] :
                       \A r \in Requests : f[r] \in FilesOf(r)}
  /\ createdAt \in {c \in [Requests -> {NoDate, 0, 1}] :
                      \A r \in Requests : c[r] = NoDate <=> voiceFiles[r] = NoJob}
  /\ objects = ObjectsOf(voiceFiles)
  /\ FileOpsIdle
  /\ CleanIdle
  /\ OtpIdle
  /\ planExists = TRUE

\* cleanupExpiredFiles on its own and the admin endpoint
NextRetention ==
  \/ \E o \in CleanOps : manualCleanup(o)
  \/ \E o \in CleanOps : cleanupExpiredFilesFind(o)
  \/ \E o \in CleanOps : cleanupExpiredFilesDeleteFile(o)
  \/ \E o \in CleanOps : cleanupExpiredFilesDeleteRecord(o)
  \/ \E o \in CleanOps : cleanupExpiredFilesReturn(o)
  \/ \E o \in CleanOps : manualCleanupThrow(o)
  \/ \E o \in CleanOps : cleanupExpiredFiles(o)
  \/ \E o \in CleanOps : cleanupExpiredFilesDelete(o)

SpecRetention == InitRetention /\ [][NextRetention]_vars

\* the full cleanup, called by the schedule and by manualCleanup('all'), over a completed
\* file and failed ones that are all 91 days old
InitCleanup ==
  /\ InitRetention
  /\ voiceFiles = [r \in Requests |-> IF r = 1 THEN CompletedFile(r) ELSE FailedFile]
  /\ \A r \in Requests : createdAt[r] = 0

NextCleanup ==
  \/ \E o \in CleanOps : runFullCleanup(o)
  \/ \E o \in CleanOps : cleanupExpiredFilesFind(o)
  \/ \E o \in CleanOps : cleanupExpiredFilesDeleteFile(o)
  \/ \E o \in CleanOps : cleanupExpiredFilesDeleteRecord(o)
  \/ \E o \in CleanOps : cleanupExpiredFilesReturn(o)
  \/ \E o \in CleanOps : cleanupTask(o)
  \/ \E o \in CleanOps : runFullCleanupFinally(o)

SpecCleanup == InitCleanup /\ [][NextCleanup]_vars

\* ------------------------------------------------------------ utils/otp, auth controller
\* dates are counted in minutes here.  The OTPs are those of one email and of the type
\* 'password_reset'; resendVerification does with 'email_verification' what forgotPassword
\* does with 'password_reset'.
Stored(i) == otps[i] # NoOtp /\ ~otps[i].deleted
\* checkOTPRateLimit: OTP.countDocuments({email, type, createdAt >= windowStart})
recentOTPs ==
  Cardinality({i \in OtpIds : Stored(i) /\ otps[i].createdAt >= now - OtpWindowMinutes})
\* verifyOTP: OTP.findOne({email, otp, type, isUsed: false, expiresAt > now})
findOTP(code) ==
  {i \in OtpIds : /\ Stored(i) /\ otps[i].otp = code
                  /\ ~otps[i].isUsed /\ otps[i].expiresAt > now}

OtpStart(o, kind, label, id) ==
  otpOps' = [otpOps EXCEPT ![o] = [kind |-> kind, pc |-> label, id |-> id, result |-> ""]]
OtpRespond(o, kind, result) ==
  otpOps' = [otpOps EXCEPT ![o] = [kind |-> kind, pc |-> "done", id |-> otpOps[o].id,
                                   result |-> result]]
OtpAt(o, label) == otpOps[o].pc = label

\* forgotPassword up to createOTP: 429 unless checkOTPRateLimit allows (recentOTPs <
\* maxAttempts); the user is found.  A client may ask again once it has its answer.
forgotPassword(o) ==
  /\ otpOps[o].pc \in {"idle", "done"}
  /\ \E i \in OtpIds : otps[i] = NoOtp
  /\ IF recentOTPs < MaxOtpAttempts THEN OtpStart(o, "forgotPassword", "deleteMany", 0)
     ELSE OtpRespond(o, "forgotPassword", "429")
  /\ UNCHANGED <<convertVars, subVars, fileVars, cleanVars, otps, planExists>>

\* createOTP: await OTP.deleteMany({email, type})
createOTPDeleteMany(o) ==
  /\ OtpAt(o, "deleteMany")
  /\ otps' = [i \in OtpIds |-> IF Stored(i) THEN [otps[i] EXCEPT !.deleted = TRUE]
                               ELSE otps[i]]
  /\ otpOps' = [otpOps EXCEPT ![o].pc = "save"]
  /\ UNCHANGED <<convertVars, subVars, fileVars, cleanVars, planExists>>

\* createOTP: new OTP({email, otp: generateSecureOTP(), type, expiresAt: now + 10 minutes});
\* await otp.save(); then the email is sent: 200, or 500 if sending fails
createOTP(o) ==
  /\ OtpAt(o, "save")
  /\ \E i \in OtpIds, sent \in BOOLEAN :
       /\ otps[i] = NoOtp
       /\ \A j \in OtpIds : j < i => otps[j] # NoOtp
       /\ otps' = [otps EXCEPT ![i] = [NoOtp EXCEPT !.otp = i, !.createdAt = now,
                                              !.expiresAt = now + OtpExpiryMinutes]]
       /\ otpOps' = [otpOps EXCEPT ![o].pc = "done", ![o].id = i,
                                   ![o].result = IF sent THEN "200" ELSE "500"]
  /\ UNCHANGED <<convertVars, subVars, fileVars, cleanVars, planExists>>

\* resetPassword up to the save of the OTP: verifyOTP finds an unused, unexpired OTP with
\* the code, or answers 400 'Invalid or expired OTP'
resetPassword(o) ==
  /\ otpOps[o].pc \in {"idle", "done"}
  /\ \E code \in OtpIds :
       IF findOTP(code) = {} THEN OtpRespond(o, "resetPassword", "400")
       ELSE \E i \in findOTP(code) : OtpStart(o, "resetPassword", "markUsed", i)
  /\ UNCHANGED <<convertVars, subVars, fileVars, cleanVars, otps, planExists>>

\* verifyOTP: otp.isUsed = true; await otp.save() (an error, hence 500, if the record was
\* deleted meanwhile); success: true
verifyOTP(o) ==
  /\ OtpAt(o, "markUsed")
  /\ IF otps[otpOps[o].id].deleted
       THEN otps' = otps /\ OtpRespond(o, "resetPassword", "500")
       ELSE /\ otps' = [otps EXCEPT ![otpOps[o].id].isUsed = TRUE,
                                    ![otpOps[o].id].verified = @ + 1]
            /\ otpOps' = [otpOps EXCEPT ![o].pc = "setPassword"]
  /\ UNCHANGED <<convertVars, subVars, fileVars, cleanVars, planExists>>

\* user.password = newPassword; await user.save(); 200
resetPasswordSave(o) ==
  /\ OtpAt(o, "setPassword")
  /\ OtpRespond(o, "resetPassword", "200")
  /\ UNCHANGED <<convertVars, subVars, fileVars, cleanVars, otps, planExists>>

\* a registered user without OTP, and the clock
InitOtp ==
  /\ RequestsIdle
  /\ SubsIdle
  /\ now = 0
  /\ plan = [charactersPerMonth |-> CharsPerMonth, maxConcurrentRequests |-> Unset]
  /\ userSub = NoSub
  /\ usage = NoUsage
  /\ voiceFiles = [r \in Requests |-> NoJob]
  /\ OtherIdle

NextOtp ==
  \/ Tick
  \/ \E o \in OtpOps : forgotPassword(o)
  \/ \E o \in OtpOps : createOTPDeleteMany(o)
  \/ \E o \in OtpOps : createOTP(o)
  \/ \E o \in OtpOps : resetPassword(o)
  \/ \E o \in OtpOps : verifyOTP(o)
  \/ \E o \in OtpOps : resetPasswordSave(o)

SpecOtp == InitOtp /\ [][NextOtp]_vars

\* ============================================================ the claims
RECURSIVE SumOver(_, _)
SumOver(f, S) == IF S = {} THEN 0
                 ELSE LET x == CHOOSE y \in S : TRUE IN f[x] + SumOver(f, S \ {x})

Terminal == {"completed", "failed"}
TryErrors == {"Speech synthesis failed", "Failed to upload audio file",
              "Failed to generate download URL"}
\* request r takes a step
Steps(r) == pc'[r] # pc[r]

\* C1: a successful convert adds the provider-reported billed character count
\* (synthesisResult.requestCharacters) to charactersUsed, not the length of the text.
C1_CommitAddsBilledCharacters ==
  [][\A r \in Requests :
       (pc[r] = "convertAddUsage" /\ resp'[r] = ConvertOk)
         => usage'.charactersUsed = usage.charactersUsed + synthesisResult[r]]_vars

C3_NoJobLeftProcessing ==
  \A r \in Requests : pc[r] = "done" => voiceFiles[r].status \in {"none"} \cup Terminal

\* C4: a job's status changes at most once, from processing to completed or failed; once
\* terminal, nothing of the record but downloadCount and lastDownloadedAt changes.
C4_TerminalStatusIsFinal ==
  [][\A r \in Requests :
       /\ voiceFiles'[r].status # voiceFiles[r].status
            => voiceFiles[r].status \in {"none", "processing"}
       /\ voiceFiles[r].status \in Terminal
            => /\ voiceFiles'[r].errorMessage = voiceFiles[r].errorMessage
               /\ voiceFiles'[r].s3Key = voiceFiles[r].s3Key
               /\ voiceFiles'[r].audioUrl = voiceFiles[r].audioUrl
               /\ voiceFiles'[r].duration = voiceFiles[r].duration]_vars

\* C5: the steps of a request that fails at synthesis, at upload or at URL signing (the
\* failing call and the catch that follows it) leave the usage record as it was, and no
\* step of any request ever lowers one of its counters.
FailsInTry(r) ==
  \/ /\ pc[r] \in {"synthesizeText", "uploadAudioFile", "generatePresignedDownloadUrl"}
     /\ pc'[r] = "catch"
  \/ /\ pc[r] = "catch"
     /\ innerError[r] \in TryErrors
     /\ Steps(r)
C5_FailedConvertLeavesUsage ==
  [][/\ \A r \in Requests : FailsInTry(r) => usage' = usage
     /\ usage'.charactersUsed >= usage.charactersUsed
     /\ usage'.requestsCount >= usage.requestsCount
     /\ usage'.audioFilesGenerated >= usage.audioFilesGenerated
     /\ usage'.totalAudioDuration >= usage.totalAudioDuration]_vars

\* a request failed at synthesis and its job is failed, while the usage record holds the
\* characters another request committed
C5_Witness ==
  \E r \in Requests :
    /\ pc[r] = "done"
    /\ voiceFiles[r].status = "failed"
    /\ voiceFiles[r].errorMessage = "Speech synthesis failed"
    /\ usage.charactersUsed > 0

\* C6: every error of synthesis, upload or URL signing ends with the job persisted as failed
\* with a non-empty errorMessage, and with a failure response.
C6_TryErrorLeavesFailedJob ==
  [][\A r \in Requests :
       (pc[r] = "catch" /\ innerError[r] \in TryErrors /\ Steps(r))
         => /\ voiceFiles'[r].status = "failed"
            /\ voiceFiles'[r].errorMessage # ""
            /\ resp'[r].status = 500]_vars

\* C7: a request whose text makes charactersUsed + text.length exceed the limit is rejected
\* with the quota answer (by the middleware, or by the controller's own check when the record
\* grew in between) before any provider call of the request and before its job record exists.
QuotaError == "Character limit exceeded for this month"
PastQuotaChecks == {"convertGetVoice", "convertCreateJob", "synthesizeText", "uploadAudioFile",
                    "generatePresignedDownloadUrl", "convertSaveCompleted", "convertAddUsage"}
QuotaStep(r) ==
  /\ pc[r] = "checkCharacterLimit" /\ Steps(r) /\ resp'[r] # TextRequired
       => LET over == resp'[r].data.charactersUsed + resp'[r].data.textLength
                        > resp'[r].data.charactersLimit
          IN  IF pc'[r] = "done"
                THEN /\ resp'[r].status = 403 /\ resp'[r].code = "QUOTA_EXCEEDED"
                     /\ resp'[r].data.charactersUsed = usage'.charactersUsed
                     /\ resp'[r].data.charactersLimit = usage'.charactersLimit
                     /\ over
                ELSE usage'.charactersUsed + body'[r].text.len <= usage'.charactersLimit
  /\ pc[r] = "convertGetUsage" /\ Steps(r)
       => IF usage'.charactersUsed + body[r].text.len > usage'.charactersLimit
            THEN /\ pc'[r] = "done"
                 /\ resp'[r].status = 403 /\ resp'[r].error = QuotaError
                 /\ resp'[r].data.textLength = body[r].text.len
            ELSE pc'[r] = "convertGetVoice"
C7_QuotaRejectedBeforeProvider ==
  /\ [][\A r \in Requests : QuotaStep(r)]_vars
  /\ [](\A r \in Requests :
          /\ resp[r].error = QuotaError => extCalls[r] = {} /\ voiceFiles[r] = NoJob
          /\ pc[r] \in {"idle", "checkSubscription", "saveExpired", "checkCharacterLimit",
                        "checkConcurrentRequests", "ttsLimiter", "ttsValidation",
                        "convertTextToSpeech", "convertGetUsage"}
               => extCalls[r] = {} /\ voiceFiles[r] = NoJob
          /\ pc[r] \in PastQuotaChecks
               => usageDoc[r].charactersUsed + body[r].text.len <= usageDoc[r].charactersLimit)

\* a request was rejected for quota while the record held committed characters: no provider
\* call, no job record
C7_Witness ==
  \E r \in Requests :
    /\ resp[r].error = QuotaError
    /\ resp[r].data.charactersUsed > 0
    /\ resp[r].data.charactersUsed + resp[r].data.textLength > resp[r].data.charactersLimit
    /\ extCalls[r] = {}
    /\ voiceFiles[r] = NoJob

\* C8 as stated: with as many jobs in processing as the plan's limit, a further request that
\* carries a text fails with ConcurrencyLimitExceeded whatever the quota state is.
AtLimit == processingFiles >= maxConcurrentRequests(plan)
C9_NoSubscriptionNoJob ==
  userSub = NoSub =>
    \A r \in Requests :
      /\ pc[r] \in {"idle", "checkSubscription", "done"}
      /\ pc[r] = "done" => resp[r] = NoSubscription
      /\ voiceFiles[r] = NoJob
      /\ extCalls[r] = {}
      /\ committed[r] = 0

\* every request of a user without subscription has ended with NoSubscription and no job
C9_Witness ==
  /\ userSub = NoSub
  /\ \A r \in Requests : pc[r] = "done" /\ resp[r] = NoSubscription /\ voiceFiles[r] = NoJob

\* C10, its first two parts: the gate, run on an active subscription whose endDate is earlier
\* than now, answers SubscriptionExpired and persists the status expired; run on a subscription
\* whose status is not active, it answers SubscriptionInactive.
GateRejects(r) ==
  /\ pc[r] = "checkSubscription" /\ Steps(r) /\ userSub.status = "active"
       /\ EndDatePassed(userSub, now)
       => pc'[r] = "saveExpired"
  /\ pc[r] = "saveExpired" /\ Steps(r)
       => pc'[r] = "done" /\ resp'[r] = SubscriptionExpired /\ userSub'.status = "expired"
  /\ pc[r] = "checkSubscription" /\ Steps(r) /\ HasSubscription(userSub)
       /\ userSub.status # "active"
       => pc'[r] = "done" /\ resp'[r] = SubscriptionInactive

Commits(r) == pc[r] = "convertAddUsage" /\ committed'[r] > 0
Rejections == {400, 403, 404}
C13_RejectionLeavesStore ==
  /\ [][\A r \in Requests :
          (Steps(r) /\ pc'[r] = "done" /\ resp'[r].status \in Rejections)
            => usage' = usage /\ voiceFiles' = voiceFiles]_vars
  /\ []((\A r \in Requests :
           /\ pc[r] \in {"idle", "done"}
           /\ pc[r] = "done" => resp[r].status \in Rejections)
          => usage = NoUsage /\ \A r \in Requests : voiceFiles[r] = NoJob)

\* C14: every job created in processing eventually is completed or failed, also when the
\* provider call or the storage call never answers: each call is bounded by a timeout that
\* drives the job to failed.  (Stated so that the request that ended on a failed save of the
\* failure, which C3 is about, does not count against it.)
C14_JobEventuallyTerminal ==
  \A r \in Requests :
    (voiceFiles[r].status = "processing")
      ~> (voiceFiles[r].status \in Terminal \/ pc[r] = "done")

\* C15: the quota pre-check admits a request iff charactersUsed + text.length <= the plan's
\* charactersPerMonth (a text that lands exactly on the limit is admitted); a rejection reports
\* remaining = limit - charactersUsed and usagePercentage = 100 * charactersUsed / limit: limit
\* 5000, usage 4990, 20 characters is rejected with remaining 10 and usagePercentage 99.8.
RatEq(a, b) == a.num * b.den = b.num * a.den
PreCheck(r) ==
  /\ pc[r] \in {"checkCharacterLimit", "convertGetUsage"}
  /\ Steps(r)
  /\ resp'[r] # TextRequired
TextLengthAt(r) == IF pc'[r] = "done" THEN resp'[r].data.textLength ELSE body'[r].text.len
C18_JobBeforeAnyExternalCall ==
  \A r \in Requests : extCalls[r] # {} => voiceFiles[r] # NoJob

\* C18 as amended: the job record is persisted, in processing, before the synthesis, the
\* upload and the URL signing of its request are issued; the voice lookup at the provider is
\* issued before the record exists.
JobCalls == {"SynthesizeSpeech", "PutObject", "GetSignedUrl"}
C18_JobBeforeSynthesis ==
  /\ [](\A r \in Requests : extCalls[r] \cap JobCalls # {} => voiceFiles[r] # NoJob)
  /\ [][\A r \in Requests :
          /\ extCalls'[r] \ extCalls[r] \subseteq JobCalls /\ extCalls'[r] # extCalls[r]
               => voiceFiles[r].status = "processing"
          /\ "DescribeVoices" \in extCalls'[r] \ extCalls[r] => voiceFiles[r] = NoJob]_vars

\* the synthesis of a request has been called and its job record is there, in processing
C18_Witness ==
  \E r \in Requests :
    /\ pc[r] = "uploadAudioFile"
    /\ extCalls[r] = {"DescribeVoices", "SynthesizeSpeech"}
    /\ voiceFiles[r].status = "processing"

\* C19: the admission check is a count at one point in time, without reservation: it admits
\* on the count it read and writes nothing, and the record that takes the slot is inserted
\* only later, by the controller.  (Two requests can so both be admitted to the one slot left:
\* the witness.)
C19_AdmissionReservesNothing ==
  [][\A r \in Requests :
       /\ pc[r] = "checkConcurrentRequests" /\ Steps(r)
            => /\ voiceFiles' = voiceFiles
               /\ pc'[r] = "ttsLimiter" <=> processingFiles < maxConcurrentRequests(plan)
       /\ voiceFiles[r] = NoJob /\ voiceFiles'[r] # NoJob => pc[r] = "convertCreateJob"]_vars

\* with a limit of 1, both requests were admitted and both have their job in processing
C19_Witness ==
  /\ plan.maxConcurrentRequests = 1
  /\ processingFiles > maxConcurrentRequests(plan)
  /\ \A r \in Requests : voiceFiles[r].status = "processing"

\* C20: the admission check denies a request iff the user's jobs in processing number the
\* plan's concurrency limit or more, the limit being the value the plan configures, 0 and 1
\* included, and 5 only when the plan configures none.
ConfiguredLimit(p) ==
  IF p.maxConcurrentRequests = Unset THEN DefaultMaxConcurrent ELSE p.maxConcurrentRequests
C20_DeniesAtConfiguredLimit ==
  [][\A r \in Requests :
       pc[r] = "checkConcurrentRequests" /\ Steps(r)
         => (resp'[r] = ConcurrencyLimitExceeded /\ pc'[r] = "done")
              <=> processingFiles >= ConfiguredLimit(plan)]_vars

\* C11: in every reachable state the user has at most one subscription with status active,
\* after any interleaving of subscribeToPlan (two concurrent calls with an automated payment
\* method included), approveSubscription, updateSubscription, cancelSubscription and the
\* lazy expiry write.
C11_AtMostOneActive == Cardinality(Actives) <= 1

\* C16: an account deletion that found the user (and, for deleteAccount, the right password)
\* ends with 200 and with the user record and the user's VoiceFile, Usage and Subscription
\* records removed, whether or not the deletion of the stored audio failed; after a failed
\* storage deletion deleteUser goes on to delete the user record
C16_StorageFailureNeverFailsDeletion ==
  \A o \in DelOps :
    /\ delOps[o].failed => delOps[o].pc \in {"deleteUserRecord", "done"}
    /\ delOps[o].pc = "done" /\ delOps[o].resp \notin {404, 400} =>
         delOps[o].resp = 200 /\ Removed
\* a deleteUser has answered 200 although the storage deletion threw or left an object behind
C16_Witness ==
  \E o \in DelOps :
    /\ delOps[o].kind = "deleteUser" /\ delOps[o].pc = "done" /\ delOps[o].resp = 200
    /\ delOps[o].failed
    /\ \E k \in AllKeys : objects[k] # NoObject
    /\ Removed

\* C17: minting download URLs never changes a stored object nor the key of a file, and every
\* URL minted for a completed file names the file's key and resolves to the bytes stored
\* for that file, however many URLs were minted before
C17_MintingIsReadOnly ==
  /\ [](\A u \in urls : /\ u.url.key = voiceFiles[u.file].s3Key
                        /\ Resolve(u.url) = AudioOf(u.file))
  /\ [][/\ objects' = objects
        /\ \A r \in Requests : voiceFiles'[r].s3Key = voiceFiles[r].s3Key]_vars
\* two different URLs were minted for one file and both calls have been answered
C17_Witness ==
  \E u1, u2 \in urls :
    /\ u1 # u2
    /\ u1.file = u2.file
    /\ voiceFiles[u1.file].downloadCount >= 2
    /\ \A o \in DlOps : dlOps[o].pc = "done" /\ dlOps[o].resp = 200

C22_RetentionRemovesObjectAndRecord ==
  \A o \in CleanOps :
    cleanOps[o].pc = "done" /\ cleanOps[o].kind \in {"files", "admin"} =>
      /\ \A r \in cleanOps[o].removed : voiceFiles[r] = NoJob
      /\ cleanOps[o].dropped \subseteq cleanOps[o].removed
      /\ \A r \in cleanOps[o].removed \cup cleanOps[o].dropped :
           createdAt[r] < now - RetentionDays

\* C23: once a cancelSubscription has answered 200 and the subscription it cancelled is still
\* cancelled, the entitlement gate rejects a request only because the endDate has passed:
\* it does not answer 403 for a missing or inactive subscription
CancelSucceeded ==
  \E c \in SubOps : /\ subOps[c].kind = "cancel" /\ subOps[c].resp = 200
                    /\ subs[subOps[c].sub] = "cancelled"
C23_CancelledUsableUntilEndDate ==
  [][\A o \in SubOps :
       subOps[o].pc = "idle" /\ subOps'[o].kind = "gate" /\ CancelSucceeded =>
         subOps'[o].resp # 403]_vars

\* C26: every active subscription refers to a plan that is still stored
C26_ActiveSubscriptionHasPlan == (\E i \in SubIds : subs[i] = "active") => planExists

\* C24: a forgotPassword (or resendVerification) request that arrives when MaxOtpAttempts
\* OTPs or more were requested for the email and type within the window is answered 429
RequestedInWindow ==
  {i \in OtpIds : otps[i] # NoOtp /\ otps[i].createdAt >= now - OtpWindowMinutes}
C24_OtpRequestsRateLimited ==
  [][\A o \in OtpOps :
       /\ otpOps[o].pc \in {"idle", "done"} /\ otpOps'[o] # otpOps[o]
       /\ otpOps'[o].kind = "forgotPassword"
       /\ Cardinality(RequestedInWindow) >= MaxOtpAttempts
       => otpOps'[o].result = "429"]_vars

\* C25: no OTP lets more than one verifyOTP call succeed
C25_OtpUsedAtMostOnce == \A i \in OtpIds : otps[i].verified <= 1

\* C27: every URL was issued to the owner of a completed file, and a getDownloadUrl for the
\* file of another user or for a file that is not completed answers 404 at once, issues no
\* URL and leaves the files (downloadCount, lastDownloadedAt) as they are
C27_UrlOnlyForOwnCompletedJob ==
  /\ [](\A u \in urls : u.user = "owner" /\ voiceFiles[u.file].status = "completed")
  /\ [][\A o \in DlOps :
          /\ dlOps[o].pc = "idle" /\ dlOps'[o].pc # "idle"
          /\ dlOps'[o].user # "owner" \/ voiceFiles[dlOps'[o].file].status # "completed"
          => /\ dlOps'[o].pc = "done" /\ dlOps'[o].resp = 404
             /\ urls' = urls /\ voiceFiles' = voiceFiles]_vars
\* another user has asked for a completed file and a user for a file in processing; both
\* got 404
C27_Witness ==
  \E o1, o2 \in DlOps :
    /\ dlOps[o1].resp = 404 /\ dlOps[o1].user = "other"
    /\ voiceFiles[dlOps[o1].file].status = "completed"
    /\ dlOps[o2].resp = 404 /\ dlOps[o2].user = "owner"
    /\ voiceFiles[dlOps[o2].file].status = "processing"

\* C29: the downloadCount of a file is the number of getDownloadUrl calls answered 200 for it
C29_DownloadCountCountsDownloads ==
  \A r \in Requests :
    voiceFiles[r].downloadCount =
      Cardinality({o \in DlOps : dlOps[o].file = r /\ dlOps[o].resp = 200})

\* C28: once the operations have finished, a subscription with status active is the one the
\* user record refers to, so that the gate finds it
C28_ActiveSubscriptionIsReferenced ==
  (\A o \in SubOps : subOps[o].pc \in {"idle", "done"})
    => \A i \in SubIds : subs[i] = "active" => userRef = i

\* C30: a stored job with status completed has the key and the URL of its own request, not
\* the placeholder, and the upload and the signing of that request were made and the object
\* is in the bucket; a stored job in processing is the new document: both placeholders,
\* duration 0 and fileSize 0
C30_CompletedHasRealKeyAndUrl ==
  \A r \in Requests :
    /\ voiceFiles[r].status = "completed"
         => /\ voiceFiles[r].s3Key # PENDING /\ voiceFiles[r].audioUrl # PENDING
            /\ voiceFiles[r].s3Key = KeyOf(r) /\ objects[KeyOf(r)] = AudioOf(r)
            /\ {"PutObject", "GetSignedUrl"} \subseteq extCalls[r]
    /\ voiceFiles[r].status = "processing"
         => /\ voiceFiles[r].s3Key = PENDING /\ voiceFiles[r].audioUrl = PENDING
            /\ voiceFiles[r].duration = 0 /\ voiceFiles[r].fileSize = 0
\* one request has completed its job while another one's is in processing
C30_Witness ==
  \E r1, r2 \in Requests :
    /\ voiceFiles[r1].status = "completed" /\ voiceFiles[r1].fileSize > 0
    /\ voiceFiles[r2].status = "processing"

====
